---- MODULE Spec2Model ----
(***************************************************************************)
(* Model of custom_components/history_editor/__init__.py: the synchronous  *)
(* mutation handlers of the History Editor (create / update / delete of    *)
(* state records, update / delete of statistics records) and the           *)
(* statistics recalculation that update_record cascades into.              *)
(*                                                                         *)
(* Tables are functions from primary key to row.  Timestamps are whole     *)
(* seconds.  Floats are exact rationals [n, d] in lowest terms (d > 0).    *)
(* A nullable column or an optional argument is << >> (None) or <<v>>.     *)
(* The recorder schema is the current one: the *_ts columns exist, States  *)
(* has old_state_id and StatisticsShortTerm has state_id (every hasattr    *)
(* probe of the source answers True), and the statistics tables import     *)
(* (HAS_STATISTICS and HAS_STATISTICS_SHORT_TERM are True).                *)
(***************************************************************************)
EXTENDS Integers, Sequences, FiniteSets, TLC

VARIABLES
    states,                 \* States rows: state_id -> row
    states_meta,            \* StatesMeta rows: set of [metadata_id, entity_id]
    statistics_meta,        \* StatisticsMeta rows: set of [id, statistic_id]
    statistics_short_term,  \* StatisticsShortTerm rows: id -> row
    statistics,             \* Statistics (hourly) rows: id -> row
    next_state_id,          \* autoincrement of States.state_id
    next_metadata_id,       \* autoincrement of StatesMeta.metadata_id
    ncalls,                 \* handler calls made so far
    before,                 \* the database as the last handler call found it
    last,                   \* the last handler call: what it was and what it returned
    sessions                \* the create_record calls in progress, one session each

tables == <<states, states_meta, statistics_meta, statistics_short_term, statistics>>
vars == <<states, states_meta, statistics_meta, statistics_short_term, statistics,
          next_state_id, next_metadata_id, ncalls, before, last, sessions>>

-----------------------------------------------------------------------------
(* Bounds of the exploration *)

\* handler calls in one behaviour
MaxCalls == 3

-----------------------------------------------------------------------------
(* Optional values *)

None == << >>
Some(v) == <<v>>
Opt(S) == {None} \cup {Some(v) : v \in S}

-----------------------------------------------------------------------------
(* Floats as exact rationals *)

Abs(x) == IF x < 0 THEN -x ELSE x

RECURSIVE GCD(_, _)
GCD(a, b) == IF b = 0 THEN a ELSE GCD(b, a % b)

\* the float n/d (d > 0), in lowest terms so that equal floats are equal values
Rat(n, d) == LET g == GCD(Abs(n), d) IN [n |-> n \div g, d |-> d \div g]
Flt(i) == [n |-> i, d |-> 1]

RatLeq(a, b) == a.n * b.d <= b.n * a.d
RatAdd(a, b) == Rat(a.n * b.d + b.n * a.d, a.d * b.d)
RatDivInt(a, k) == Rat(a.n, a.d * k)

\* sum(), min(), max() of a non-empty Python list of floats
RECURSIVE SumSeq(_)
SumSeq(s) == IF Len(s) = 0 THEN Flt(0) ELSE RatAdd(Head(s), SumSeq(Tail(s)))
MinSeq(s) == CHOOSE x \in {s[i] : i \in 1..Len(s)} : \A j \in 1..Len(s) : RatLeq(x, s[j])
MaxSeq(s) == CHOOSE x \in {s[i] : i \in 1..Len(s)} : \A j \in 1..Len(s) : RatLeq(s[j], x)

\* a list comprehension [f(x) for x in s if x is not None] over optional floats
RECURSIVE Present(_)
Present(s) ==
    IF Len(s) = 0 THEN << >>
    ELSE IF Head(s) = None THEN Present(Tail(s))
    ELSE <<Head(s)[1]>> \o Present(Tail(s))

-----------------------------------------------------------------------------
(* The values the handlers are called with *)

\* mutant: a state that does not parse counts as 0.0
float_lenient(v) ==
    CASE v = "10" -> Some(Flt(10))
      [] v = "20" -> Some(Flt(20))
      [] v = "30" -> Some(Flt(30))
      [] v = "5" -> Some(Flt(5))
      [] OTHER -> Some(Flt(0))

\* float(s.state): the parsed float, or None where Python raises ValueError
float(v) ==
    CASE v = "10" -> Some(Flt(10))
      [] v = "20" -> Some(Flt(20))
      [] v = "30" -> Some(Flt(30))
      [] v = "5" -> Some(Flt(5))
      [] OTHER -> None

\* json.dumps(attributes) of a dict of at most one string entry, the dict being
\* the set of its <<key, value>> items
json_dumps(a) ==
    IF a = {} THEN "{}"
    ELSE LET item == CHOOSE kv \in a : TRUE
         IN  "{\"" \o item[1] \o "\": \"" \o item[2] \o "\"}"

\* all enumerations of a finite set as a sequence without repetition
RECURSIVE SeqsOf(_)
SeqsOf(S) ==
    IF S = {} THEN {<< >>}
    ELSE UNION {{<<x>> \o s : s \in SeqsOf(S \ {x})} : x \in S}

Range(s) == {s[i] : i \in 1..Len(s)}

\* a datetime argument, by its epoch second; datetime.timestamp() reads it back
datetime(epoch) == [epoch |-> epoch]
timestamp(dt) == dt.epoch

-----------------------------------------------------------------------------
(* The database as one value: what a session reads and writes.  calls is   *)
(* the trace of the recalculations the running handler has invoked.        *)

DB ==
    [states |-> states,
     states_meta |-> states_meta,
     statistics_meta |-> statistics_meta,
     statistics_short_term |-> statistics_short_term,
     statistics |-> statistics,
     next_state_id |-> next_state_id,
     next_metadata_id |-> next_metadata_id,
     calls |-> << >>]

\* the committed rows of a database value
Store(db) ==
    <<db.states, db.states_meta, db.statistics_meta, db.statistics_short_term, db.statistics>>

\* query(...).first() on a filter without ORDER BY: rows come back in primary-key order
first(ids) == IF ids = {} THEN None ELSE Some(CHOOSE i \in ids : \A j \in ids : i <= j)

\* ORDER BY States.last_updated_ts ASC: every order the database may return the
\* rows in (rows with equal timestamps come back in either order)
RECURSIVE AscendingBy(_, _, _)
AscendingBy(table, column, ids) ==
    IF ids = {} THEN {<< >>}
    ELSE UNION {{<<x>> \o s : s \in AscendingBy(table, column, ids \ {x})} :
                  x \in {i \in ids : \A j \in ids : table[i][column] <= table[j][column]}}

OrdersByLastUpdated(st) == AscendingBy(st, "last_updated_ts", DOMAIN st)

\* ORDER BY StatisticsShortTerm.start_ts ASC, likewise
OrdersByStart(sst) == AscendingBy(sst, "start_ts", DOMAIN sst)

\* States JOIN StatesMeta ON metadata_id WHERE StatesMeta.entity_id = entity_id
JoinedEntity(db, i, entity_id) ==
    \E m \in db.states_meta :
        m.metadata_id = db.states[i].metadata_id /\ m.entity_id = entity_id

-----------------------------------------------------------------------------
(* Recalculation *)

\* mutants of _recalculate_short_term_stat: the period takes in the records up to
\* start + reach; True is returned although no row exists when absent_updated
recalculate_short_term_variant(db, stat_meta_id, entity_id, start_ts_5min, by_updated, reach, absent_updated) ==
    LET InPeriod(i) ==
            /\ JoinedEntity(db, i, entity_id)
            /\ db.states[i].last_updated_ts >= start_ts_5min
            /\ db.states[i].last_updated_ts <= start_ts_5min + reach
        Numeric(i) == float(db.states[i].state) # None
        numeric == SelectSeq(SelectSeq(by_updated, InPeriod), Numeric)
        numeric_values == [k \in 1..Len(numeric) |-> float(db.states[numeric[k]].state)[1]]
        short_term ==
            first({r \in DOMAIN db.statistics_short_term :
                      /\ db.statistics_short_term[r].metadata_id = stat_meta_id
                      /\ db.statistics_short_term[r].start_ts = start_ts_5min})
        called ==
            [db EXCEPT !.calls = Append(@, [kind |-> "short_term", start_ts |-> start_ts_5min])]
    IN  IF short_term = None THEN [updated |-> absent_updated, db |-> called]
        ELSE IF Len(numeric_values) > 0 THEN
            [updated |-> TRUE,
             db |-> [called EXCEPT !.statistics_short_term[short_term[1]] =
                        [@ EXCEPT !.mean = Some(RatDivInt(SumSeq(numeric_values),
                                                          Len(numeric_values))),
                                  !.min = Some(MinSeq(numeric_values)),
                                  !.max = Some(MaxSeq(numeric_values)),
                                  !.state = Some(numeric_values[Len(numeric)]),
                                  !.state_id = Some(numeric[Len(numeric)])]]]
        ELSE [updated |-> TRUE, db |-> called]

_recalculate_short_term_stat_closed_period(db, stat_meta_id, entity_id, start_ts_5min, by_updated) ==
    recalculate_short_term_variant(db, stat_meta_id, entity_id, start_ts_5min, by_updated,
                                   300, FALSE)

_recalculate_short_term_stat_always_true(db, stat_meta_id, entity_id, start_ts_5min, by_updated) ==
    recalculate_short_term_variant(db, stat_meta_id, entity_id, start_ts_5min, by_updated,
                                   299, TRUE)

\* One 5-minute row from the States rows of its period.  by_updated is the order
\* the ORDER BY returns.  Yields [updated, db].
_recalculate_short_term_stat(db, stat_meta_id, entity_id, start_ts_5min, by_updated) ==
    LET end_ts == start_ts_5min + 300
        InPeriod(i) ==
            /\ JoinedEntity(db, i, entity_id)
            /\ db.states[i].last_updated_ts >= start_ts_5min
            /\ db.states[i].last_updated_ts < end_ts
        states_in_period == SelectSeq(by_updated, InPeriod)
        Numeric(i) == float(db.states[i].state) # None
        numeric == SelectSeq(states_in_period, Numeric)
        numeric_values == [k \in 1..Len(numeric) |-> float(db.states[numeric[k]].state)[1]]
        last_state_id == IF Len(numeric) = 0 THEN None ELSE Some(numeric[Len(numeric)])
        last_state_float ==
            IF Len(numeric) = 0 THEN None ELSE Some(numeric_values[Len(numeric)])
        short_term ==
            first({r \in DOMAIN db.statistics_short_term :
                      /\ db.statistics_short_term[r].metadata_id = stat_meta_id
                      /\ db.statistics_short_term[r].start_ts = start_ts_5min})
        called ==
            [db EXCEPT !.calls = Append(@, [kind |-> "short_term", start_ts |-> start_ts_5min])]
    IN  IF short_term = None THEN [updated |-> FALSE, db |-> called]
        ELSE IF Len(numeric_values) > 0 THEN
            [updated |-> TRUE,
             db |-> [called EXCEPT !.statistics_short_term[short_term[1]] =
                        [@ EXCEPT !.mean = Some(RatDivInt(SumSeq(numeric_values),
                                                          Len(numeric_values))),
                                  !.min = Some(MinSeq(numeric_values)),
                                  !.max = Some(MaxSeq(numeric_values)),
                                  !.state = last_state_float,
                                  !.state_id = IF last_state_id # None
                                               THEN last_state_id ELSE @]]]
        ELSE [updated |-> TRUE, db |-> called]

\* mutants of _recalculate_long_term_stat: the hour takes in the 5-minute rows up to
\* start + reach; state is taken from the first row when first_state; True is
\* returned although nothing was updated when absent_updated
recalculate_long_term_variant(db, stat_meta_id, start_ts_hour, by_start, reach, first_state, absent_updated) ==
    LET InHour(r) ==
            /\ db.statistics_short_term[r].metadata_id = stat_meta_id
            /\ db.statistics_short_term[r].start_ts >= start_ts_hour
            /\ db.statistics_short_term[r].start_ts <= start_ts_hour + reach
        short_terms == SelectSeq(by_start, InHour)
        long_term ==
            first({r \in DOMAIN db.statistics :
                      /\ db.statistics[r].metadata_id = stat_meta_id
                      /\ db.statistics[r].start_ts = start_ts_hour})
        col(f) == [k \in 1..Len(short_terms) |-> db.statistics_short_term[short_terms[k]][f]]
        means == Present(col("mean"))
        mins == Present(col("min"))
        maxs == Present(col("max"))
        sts == Present(col("state"))
        called ==
            [db EXCEPT !.calls = Append(@, [kind |-> "long_term", start_ts |-> start_ts_hour])]
    IN  IF Len(short_terms) = 0 \/ long_term = None
        THEN [updated |-> absent_updated, db |-> called]
        ELSE [updated |-> TRUE,
              db |-> [called EXCEPT !.statistics[long_term[1]] =
                        [@ EXCEPT !.mean = IF Len(means) > 0
                                           THEN Some(RatDivInt(SumSeq(means), Len(means)))
                                           ELSE @,
                                  !.min = IF Len(mins) > 0 THEN Some(MinSeq(mins)) ELSE @,
                                  !.max = IF Len(maxs) > 0 THEN Some(MaxSeq(maxs)) ELSE @,
                                  !.state = IF Len(sts) = 0 THEN @
                                            ELSE IF first_state THEN Some(sts[1])
                                            ELSE Some(sts[Len(sts)])]]]

_recalculate_long_term_stat_closed_hour(db, stat_meta_id, start_ts_hour, by_start) ==
    recalculate_long_term_variant(db, stat_meta_id, start_ts_hour, by_start, 3600, FALSE, FALSE)

_recalculate_long_term_stat_first_state(db, stat_meta_id, start_ts_hour, by_start) ==
    recalculate_long_term_variant(db, stat_meta_id, start_ts_hour, by_start, 3599, TRUE, FALSE)

_recalculate_long_term_stat_always_true(db, stat_meta_id, start_ts_hour, by_start) ==
    recalculate_long_term_variant(db, stat_meta_id, start_ts_hour, by_start, 3599, FALSE, TRUE)

\* mutant: an hourly row that does not exist is inserted
_recalculate_long_term_stat_creates_row(db, stat_meta_id, start_ts_hour, by_start) ==
    LET found == {r \in DOMAIN db.statistics :
                    /\ db.statistics[r].metadata_id = stat_meta_id
                    /\ db.statistics[r].start_ts = start_ts_hour}
        new_id == 1 + Cardinality(DOMAIN db.statistics)
                    + Cardinality({r \in DOMAIN db.statistics : r > Cardinality(DOMAIN db.statistics)})
        row == [metadata_id |-> stat_meta_id, start_ts |-> start_ts_hour, mean |-> None,
                min |-> None, max |-> None, sum |-> None, state |-> None]
        inserted == [db EXCEPT !.statistics =
                        [r \in DOMAIN @ \cup {new_id + 10} |->
                            IF r = new_id + 10 THEN row ELSE @[r]]]
    IN  recalculate_long_term_variant(IF found = {} THEN inserted ELSE db, stat_meta_id,
                                      start_ts_hour, by_start, 3599, FALSE, FALSE)

\* One hourly row from the 5-minute rows of its hour.  by_start is the order the
\* ORDER BY returns.  Yields [updated, db].
_recalculate_long_term_stat(db, stat_meta_id, start_ts_hour, by_start) ==
    LET end_ts == start_ts_hour + 3600
        InHour(r) ==
            /\ db.statistics_short_term[r].metadata_id = stat_meta_id
            /\ db.statistics_short_term[r].start_ts >= start_ts_hour
            /\ db.statistics_short_term[r].start_ts < end_ts
        short_terms == SelectSeq(by_start, InHour)
        long_term ==
            first({r \in DOMAIN db.statistics :
                      /\ db.statistics[r].metadata_id = stat_meta_id
                      /\ db.statistics[r].start_ts = start_ts_hour})
        col(f) == [k \in 1..Len(short_terms) |-> db.statistics_short_term[short_terms[k]][f]]
        means == Present(col("mean"))
        mins == Present(col("min"))
        maxs == Present(col("max"))
        sts == Present(col("state"))
        called ==
            [db EXCEPT !.calls = Append(@, [kind |-> "long_term", start_ts |-> start_ts_hour])]
    IN  IF Len(short_terms) = 0 THEN [updated |-> FALSE, db |-> called]
        ELSE IF long_term = None THEN [updated |-> FALSE, db |-> called]
        ELSE [updated |-> TRUE,
              db |-> [called EXCEPT !.statistics[long_term[1]] =
                        [@ EXCEPT !.mean = IF Len(means) > 0
                                           THEN Some(RatDivInt(SumSeq(means), Len(means)))
                                           ELSE @,
                                  !.min = IF Len(mins) > 0 THEN Some(MinSeq(mins)) ELSE @,
                                  !.max = IF Len(maxs) > 0 THEN Some(MaxSeq(maxs)) ELSE @,
                                  !.state = IF Len(sts) > 0
                                            THEN Some(sts[Len(sts)]) ELSE @]]]

\* mutant: the quotient is truncated toward zero instead of floored
_add_periods_truncating(ts) ==
    IF ts >= 0 THEN [p5 |-> (ts \div 300) * 300, ph |-> (ts \div 3600) * 3600]
    ELSE [p5 |-> 0 - (((0 - ts) \div 300) * 300), ph |-> 0 - (((0 - ts) \div 3600) * 3600)]

\* _add_periods: the 5-minute and the hourly period start of a timestamp
_add_periods(ts) == [p5 |-> (ts \div 300) * 300, ph |-> (ts \div 3600) * 3600]

\* mutants: only the new timestamp's periods are added
affected_5min_new_only(old_ts, new_ts) == {_add_periods(t[1]).p5 : t \in {new_ts} \ {None}}
affected_hour_new_only(old_ts, new_ts) == {_add_periods(t[1]).ph : t \in {new_ts} \ {None}}

\* the set affected_5min / affected_hour after the old and the new timestamp
\* (each optional) have been added
affected_5min(old_ts, new_ts) == {_add_periods(t[1]).p5 : t \in {old_ts, new_ts} \ {None}}
affected_hour(old_ts, new_ts) == {_add_periods(t[1]).ph : t \in {old_ts, new_ts} \ {None}}

\* for start_ts in affected_5min: _recalculate_short_term_stat(...)
RECURSIVE recalculate_5min_loop(_, _, _, _, _)
recalculate_5min_loop(db, stat_meta_id, entity_id, todo, by_updated) ==
    IF Len(todo) = 0 THEN db
    ELSE recalculate_5min_loop(
            _recalculate_short_term_stat(db, stat_meta_id, entity_id, Head(todo), by_updated).db,
            stat_meta_id, entity_id, Tail(todo), by_updated)

\* for start_ts in affected_hour: _recalculate_long_term_stat(...)
RECURSIVE recalculate_hour_loop(_, _, _, _)
recalculate_hour_loop(db, stat_meta_id, todo, by_start) ==
    IF Len(todo) = 0 THEN db
    ELSE recalculate_hour_loop(
            _recalculate_long_term_stat(db, stat_meta_id, Head(todo), by_start).db,
            stat_meta_id, Tail(todo), by_start)

\* mutant: the hourly rows are recalculated before the 5-minute rows
_update_statistics_after_state_change_hour_first(db, state_record, old_ts, new_last_updated) ==
    LET new_ts == IF new_last_updated # None THEN Some(timestamp(new_last_updated[1]))
                  ELSE Some(state_record.last_updated_ts)
        a5 == affected_5min(old_ts, new_ts)
        ah == affected_hour(old_ts, new_ts)
        meta == {m \in db.states_meta : m.metadata_id = state_record.metadata_id}
        entity_id == (CHOOSE m \in meta : TRUE).entity_id
        stat_meta == {m \in db.statistics_meta : m.statistic_id = entity_id}
        stat_meta_id == (CHOOSE m \in stat_meta : TRUE).id
    IN  IF a5 = {} \/ meta = {} \/ stat_meta = {} THEN {db}
        ELSE {recalculate_5min_loop(
                  recalculate_hour_loop(db, stat_meta_id, oh, by_start),
                  stat_meta_id, entity_id, o5, by_updated) :
                o5 \in SeqsOf(a5), oh \in SeqsOf(ah),
                by_updated \in OrdersByLastUpdated(db.states),
                by_start \in OrdersByStart(db.statistics_short_term)}

\* The cascade after a state record changed: the set of databases it may leave
\* (a Python set is iterated in no particular order; ties of an ORDER BY).
_update_statistics_after_state_change(db, state_record, old_ts, new_last_updated) ==
    LET new_ts == IF new_last_updated # None THEN Some(timestamp(new_last_updated[1]))
                  ELSE Some(state_record.last_updated_ts)
        a5 == affected_5min(old_ts, new_ts)
        ah == affected_hour(old_ts, new_ts)
        meta == {m \in db.states_meta : m.metadata_id = state_record.metadata_id}
        entity_id == (CHOOSE m \in meta : TRUE).entity_id
        stat_meta == {m \in db.statistics_meta : m.statistic_id = entity_id}
        stat_meta_id == (CHOOSE m \in stat_meta : TRUE).id
    IN  IF a5 = {} THEN {db}
        ELSE IF meta = {} THEN {db}
        ELSE IF stat_meta = {} THEN {db}
        ELSE {recalculate_hour_loop(
                  recalculate_5min_loop(db, stat_meta_id, entity_id, o5, by_updated),
                  stat_meta_id, oh, by_start) :
                o5 \in SeqsOf(a5), oh \in SeqsOf(ah),
                by_updated \in OrdersByLastUpdated(db.states),
                by_start \in OrdersByStart(db.statistics_short_term)}

-----------------------------------------------------------------------------
(* The handlers.  Each yields the set of outcomes [db, result, cascade] it *)
(* may end in: db the database as committed, result the returned dict,     *)
(* cascade whether _update_statistics_after_state_change was called.       *)

\* mutant: the failure leaves the handler as an exception instead of a returned dict
Failure_raised(error) == [raised |-> error]

Success == [success |-> TRUE, error |-> ""]
Failure(error) == [success |-> FALSE, error |-> error]
Outcome(db, result, cascade) == [db |-> db, result |-> result, cascade |-> cascade]

\* the error texts the handlers return
StateNotFound(state_id) == "State ID " \o ToString(state_id) \o " not found"
StatisticNotFound(stat_id) == "Statistic ID " \o ToString(stat_id) \o " not found"
CannotEditShortTerm ==
    "Cannot edit short-term statistics directly: state history "
    \o "records exist for this period. Edit the state history instead."
CannotEditLongTerm ==
    "Cannot edit long-term statistics directly: short-term statistics "
    \o "records exist for this period. Edit the short-term statistics instead."
CannotDeleteShortTerm ==
    "Cannot delete short-term statistics directly: state history "
    \o "records exist for this period. Delete the state history instead."
CannotDeleteLongTerm ==
    "Cannot delete long-term statistics directly: short-term statistics "
    \o "records exist for this period. Delete the short-term statistics instead."

\* mutant: a new last_updated alone does not lead on to the statistics
cascade_wanted_state_only(new_state, new_last_updated) == new_state # None

\* the condition under which update_record goes on to the statistics
cascade_wanted(new_state, new_last_updated) == new_state # None \/ new_last_updated # None

\* mutant: a new last_updated is written to last_changed_ts as well
_update_record_sync_both_timestamps(db, state_id, new_state, new_attributes, new_last_changed, new_last_updated) ==
    LET state == IF state_id \in DOMAIN db.states THEN Some(db.states[state_id]) ELSE None
    IN  IF state = None THEN {Outcome(db, Failure(StateNotFound(state_id)), FALSE)}
        ELSE
        LET old_ts == Some(state[1].last_updated_ts)
            row == [state[1] EXCEPT
                      !.state = IF new_state # None THEN new_state[1] ELSE @,
                      !.attributes = IF new_attributes # None
                                     THEN json_dumps(new_attributes[1]) ELSE @,
                      !.last_changed_ts = IF new_last_changed # None
                                          THEN timestamp(new_last_changed[1])
                                          ELSE IF new_last_updated # None
                                          THEN timestamp(new_last_updated[1]) ELSE @,
                      !.last_updated_ts = IF new_last_updated # None
                                          THEN timestamp(new_last_updated[1]) ELSE @]
            committed == [db EXCEPT !.states[state_id] = row]
        IN  IF cascade_wanted(new_state, new_last_updated)
            THEN {Outcome(d, Success, TRUE) :
                    d \in _update_statistics_after_state_change(
                              committed, row, old_ts, new_last_updated)}
            ELSE {Outcome(committed, Success, FALSE)}

_update_record_sync(db, state_id, new_state, new_attributes, new_last_changed, new_last_updated) ==
    LET state == IF state_id \in DOMAIN db.states THEN Some(db.states[state_id]) ELSE None
    IN  IF state = None THEN {Outcome(db, Failure(StateNotFound(state_id)), FALSE)}
        ELSE
        LET old_ts == Some(state[1].last_updated_ts)
            row == [state[1] EXCEPT
                      !.state = IF new_state # None THEN new_state[1] ELSE @,
                      !.attributes = IF new_attributes # None
                                     THEN json_dumps(new_attributes[1]) ELSE @,
                      !.last_changed_ts = IF new_last_changed # None
                                          THEN timestamp(new_last_changed[1]) ELSE @,
                      !.last_updated_ts = IF new_last_updated # None
                                          THEN timestamp(new_last_updated[1]) ELSE @]
            committed == [db EXCEPT !.states[state_id] = row]
        IN  IF cascade_wanted(new_state, new_last_updated)
            THEN {Outcome(d, Success, TRUE) :
                    d \in _update_statistics_after_state_change(
                              committed, row, old_ts, new_last_updated)}
            ELSE {Outcome(committed, Success, FALSE)}

\* mutant: every StatisticsShortTerm row that refers to some record is deleted
delete_associated_statistics_any_reference(db, state_id) ==
    LET kept == {r \in DOMAIN db.statistics_short_term :
                    db.statistics_short_term[r].state_id = None}
    IN  [r \in kept |-> db.statistics_short_term[r]]

\* mutant: no StatisticsShortTerm row is deleted with the record
delete_associated_statistics_none(db, state_id) == db.statistics_short_term

\* the StatisticsShortTerm table without the rows whose state_id is the record
delete_associated_statistics(db, state_id) ==
    LET kept == {r \in DOMAIN db.statistics_short_term :
                    db.statistics_short_term[r].state_id # Some(state_id)}
    IN  [r \in kept |-> db.statistics_short_term[r]]

\* mutant: old_state_id is left as it is where it refers to the row
_delete_record_sync_keeps_references(db, state_id) ==
    IF state_id \notin DOMAIN db.states
    THEN {Outcome(db, Failure(StateNotFound(state_id)), FALSE)}
    ELSE
    LET short_term == delete_associated_statistics(db, state_id)
        remaining == [i \in DOMAIN db.states \ {state_id} |-> db.states[i]]
    IN  {Outcome([db EXCEPT !.states = remaining, !.statistics_short_term = short_term],
                 Success, FALSE)}

_delete_record_sync(db, state_id) ==
    IF state_id \notin DOMAIN db.states
    THEN {Outcome(db, Failure(StateNotFound(state_id)), FALSE)}
    ELSE
    LET \* clear old_state_id where it refers to the row
        unreferenced ==
            [i \in DOMAIN db.states |->
                IF db.states[i].old_state_id = Some(state_id)
                THEN [db.states[i] EXCEPT !.old_state_id = None] ELSE db.states[i]]
        short_term == delete_associated_statistics(db, state_id)
        \* delete the row itself
        remaining == [i \in DOMAIN db.states \ {state_id} |-> unreferenced[i]]
    IN  {Outcome([db EXCEPT !.states = remaining, !.statistics_short_term = short_term],
                 Success, FALSE)}

\* mutant: the new row refers back to the row with the state_id before its own
_create_record_sync_links_previous(db, entity_id, state, attributes, last_changed, last_updated) ==
    LET found == {m \in db.states_meta : m.entity_id = entity_id}
        created == [metadata_id |-> db.next_metadata_id, entity_id |-> entity_id]
        metadata == IF found = {} THEN created ELSE CHOOSE m \in found : TRUE
        new_state ==
            [metadata_id |-> metadata.metadata_id,
             state |-> state,
             attributes |-> json_dumps(attributes),
             last_changed_ts |-> timestamp(last_changed),
             last_updated_ts |-> timestamp(last_updated),
             old_state_id |-> Some(db.next_state_id - 1)]
        state_id == db.next_state_id
    IN  {Outcome([db EXCEPT
                    !.states_meta = IF found = {} THEN @ \cup {created} ELSE @,
                    !.next_metadata_id = IF found = {} THEN @ + 1 ELSE @,
                    !.states = [i \in DOMAIN @ \cup {state_id} |->
                                  IF i = state_id THEN new_state ELSE @[i]],
                    !.next_state_id = @ + 1],
                 Success, FALSE)}

_create_record_sync(db, entity_id, state, attributes, last_changed, last_updated) ==
    LET found == {m \in db.states_meta : m.entity_id = entity_id}
        \* session.add(StatesMeta(entity_id=entity_id)); session.flush()
        created == [metadata_id |-> db.next_metadata_id, entity_id |-> entity_id]
        metadata == IF found = {} THEN created ELSE CHOOSE m \in found : TRUE
        new_state ==
            [metadata_id |-> metadata.metadata_id,
             state |-> state,
             attributes |-> json_dumps(attributes),
             last_changed_ts |-> timestamp(last_changed),
             last_updated_ts |-> timestamp(last_updated),
             old_state_id |-> None]
        state_id == db.next_state_id
    IN  {Outcome([db EXCEPT
                    !.states_meta = IF found = {} THEN @ \cup {created} ELSE @,
                    !.next_metadata_id = IF found = {} THEN @ + 1 ELSE @,
                    !.states = [i \in DOMAIN @ \cup {state_id} |->
                                  IF i = state_id THEN new_state ELSE @[i]],
                    !.next_state_id = @ + 1],
                 Success, FALSE)}

\* mutant: a state record at the very start of the period does not count
update_short_term_locked_after_start(db, stat) ==
    LET stat_meta_row == {m \in db.statistics_meta : m.id = stat.metadata_id}
        statistic_id == (CHOOSE m \in stat_meta_row : TRUE).statistic_id
        state_count ==
            Cardinality({i \in DOMAIN db.states :
                /\ JoinedEntity(db, i, statistic_id)
                /\ db.states[i].last_updated_ts > stat.start_ts
                /\ db.states[i].last_updated_ts < stat.start_ts + 300})
    IN  stat_meta_row # {} /\ state_count > 0

\* the guard of _update_statistic_sync on a 5-minute row: States rows of the
\* statistic's entity exist in [start_ts, start_ts + 300)
update_short_term_locked(db, stat) ==
    LET stat_meta_row == {m \in db.statistics_meta : m.id = stat.metadata_id}
        statistic_id == (CHOOSE m \in stat_meta_row : TRUE).statistic_id
        state_count ==
            Cardinality({i \in DOMAIN db.states :
                /\ JoinedEntity(db, i, statistic_id)
                /\ db.states[i].last_updated_ts >= stat.start_ts
                /\ db.states[i].last_updated_ts < stat.start_ts + 300})
    IN  stat_meta_row # {} /\ state_count > 0

\* mutant: 5-minute rows of any metadata_id count
update_long_term_locked_any_metadata(db, stat) ==
    LET short_term_count ==
            Cardinality({r \in DOMAIN db.statistics_short_term :
                /\ db.statistics_short_term[r].start_ts >= stat.start_ts
                /\ db.statistics_short_term[r].start_ts < stat.start_ts + 3600})
    IN  short_term_count > 0

\* the guard of _update_statistic_sync on an hourly row: 5-minute rows of the same
\* metadata_id exist in [start_ts, start_ts + 3600)
update_long_term_locked(db, stat) ==
    LET short_term_count ==
            Cardinality({r \in DOMAIN db.statistics_short_term :
                /\ db.statistics_short_term[r].metadata_id = stat.metadata_id
                /\ db.statistics_short_term[r].start_ts >= stat.start_ts
                /\ db.statistics_short_term[r].start_ts < stat.start_ts + 3600})
    IN  short_term_count > 0

\* the row with the supplied columns assigned
assign_statistic(row, mean, min_val, max_val, sum_val, state, start) ==
    [row EXCEPT !.mean = IF mean # None THEN mean ELSE @,
                !.min = IF min_val # None THEN min_val ELSE @,
                !.max = IF max_val # None THEN max_val ELSE @,
                !.sum = IF sum_val # None THEN sum_val ELSE @,
                !.state = IF state # None THEN state ELSE @,
                !.start_ts = IF start # None THEN timestamp(start[1]) ELSE @]

\* session.flush() sends the UPDATE of the edited row.  The handler does not look for
\* another row with the row's new key; a store whose statistics tables carry a unique
\* index on (metadata_id, start_ts) raises at the flush when there is one, a store
\* without it accepts the row.  The handler runs on either, so both outcomes are kept.
flush_may_raise(table, stat_id, stat) ==
    \E r \in DOMAIN table \ {stat_id} :
        /\ table[r].metadata_id = stat.metadata_id
        /\ table[r].start_ts = stat.start_ts

\* str(err) of that exception, returned by the outer except clause
IntegrityError == "IntegrityError: UNIQUE constraint failed"

_update_statistic_sync(db, stat_id, mean, min_val, max_val, sum_val, state, start, statistic_type) ==
    LET table == IF statistic_type = "short_term" THEN db.statistics_short_term
                 ELSE db.statistics
    IN  IF stat_id \notin DOMAIN table
        THEN {Outcome(db, Failure(StatisticNotFound(stat_id)), FALSE)}
        ELSE IF statistic_type = "short_term" /\ update_short_term_locked(db, table[stat_id])
        THEN {Outcome(db, Failure(CannotEditShortTerm), FALSE)}
        ELSE IF statistic_type # "short_term" /\ update_long_term_locked(db, table[stat_id])
        THEN {Outcome(db, Failure(CannotEditLongTerm), FALSE)}
        ELSE
        LET stat == assign_statistic(table[stat_id], mean, min_val, max_val, sum_val,
                                     state, start)
            flushed == IF statistic_type = "short_term"
                       THEN [db EXCEPT !.statistics_short_term[stat_id] = stat]
                       ELSE [db EXCEPT !.statistics[stat_id] = stat]
            effective_ts == IF start # None THEN timestamp(start[1]) ELSE stat.start_ts
            start_ts_hour == (effective_ts \div 3600) * 3600
        IN  (IF flush_may_raise(table, stat_id, stat)
             THEN {Outcome(db, Failure(IntegrityError), FALSE)} ELSE {})
            \cup
            (IF statistic_type = "short_term"
             THEN {Outcome(_recalculate_long_term_stat(
                               flushed, stat.metadata_id, start_ts_hour, by_start).db,
                           Success, FALSE) :
                     by_start \in OrdersByStart(flushed.statistics_short_term)}
             ELSE {Outcome(flushed, Success, FALSE)})

\* the guards of _delete_statistic_sync: the same two checks, written out again
delete_short_term_locked(db, stat_metadata_id, stat_start_ts) ==
    LET stat_meta_row == {m \in db.statistics_meta : m.id = stat_metadata_id}
        statistic_id == (CHOOSE m \in stat_meta_row : TRUE).statistic_id
        state_count ==
            Cardinality({i \in DOMAIN db.states :
                /\ JoinedEntity(db, i, statistic_id)
                /\ db.states[i].last_updated_ts >= stat_start_ts
                /\ db.states[i].last_updated_ts < stat_start_ts + 300})
    IN  stat_meta_row # {} /\ state_count > 0

delete_long_term_locked(db, stat_metadata_id, stat_start_ts) ==
    LET short_term_count ==
            Cardinality({r \in DOMAIN db.statistics_short_term :
                /\ db.statistics_short_term[r].metadata_id = stat_metadata_id
                /\ db.statistics_short_term[r].start_ts >= stat_start_ts
                /\ db.statistics_short_term[r].start_ts < stat_start_ts + 3600})
    IN  short_term_count > 0

\* mutant: the hourly row is not recalculated after the delete of a 5-minute row
_delete_statistic_sync_no_cascade(db, stat_id, statistic_type) ==
    LET table == IF statistic_type = "short_term" THEN db.statistics_short_term
                 ELSE db.statistics
    IN  IF stat_id \notin DOMAIN table
        THEN {Outcome(db, Failure(StatisticNotFound(stat_id)), FALSE)}
        ELSE
        LET stat_start_ts == table[stat_id].start_ts
            stat_metadata_id == table[stat_id].metadata_id
            rest == [r \in DOMAIN table \ {stat_id} |-> table[r]]
            deleted == IF statistic_type = "short_term"
                       THEN [db EXCEPT !.statistics_short_term = rest]
                       ELSE [db EXCEPT !.statistics = rest]
        IN  IF statistic_type = "short_term"
               /\ delete_short_term_locked(db, stat_metadata_id, stat_start_ts)
            THEN {Outcome(db, Failure(CannotDeleteShortTerm), FALSE)}
            ELSE IF statistic_type # "short_term"
                    /\ delete_long_term_locked(db, stat_metadata_id, stat_start_ts)
            THEN {Outcome(db, Failure(CannotDeleteLongTerm), FALSE)}
            ELSE {Outcome(deleted, Success, FALSE)}

\* mutant: the row is deleted before the guard is consulted
_delete_statistic_sync_delete_first(db, stat_id, statistic_type) ==
    LET table == IF statistic_type = "short_term" THEN db.statistics_short_term
                 ELSE db.statistics
    IN  IF stat_id \notin DOMAIN table
        THEN {Outcome(db, Failure(StatisticNotFound(stat_id)), FALSE)}
        ELSE
        LET stat_start_ts == table[stat_id].start_ts
            stat_metadata_id == table[stat_id].metadata_id
            rest == [r \in DOMAIN table \ {stat_id} |-> table[r]]
            deleted == IF statistic_type = "short_term"
                       THEN [db EXCEPT !.statistics_short_term = rest]
                       ELSE [db EXCEPT !.statistics = rest]
            start_ts_hour == (stat_start_ts \div 3600) * 3600
        IN  IF statistic_type = "short_term"
               /\ delete_short_term_locked(db, stat_metadata_id, stat_start_ts)
            THEN {Outcome(deleted, Failure(CannotDeleteShortTerm),
                          FALSE)}
            ELSE IF statistic_type # "short_term"
                    /\ delete_long_term_locked(db, stat_metadata_id, stat_start_ts)
            THEN {Outcome(deleted, Failure(CannotDeleteLongTerm),
                          FALSE)}
            ELSE IF statistic_type = "short_term"
            THEN {Outcome(_recalculate_long_term_stat(
                              deleted, stat_metadata_id, start_ts_hour, by_start).db,
                          Success, FALSE) :
                    by_start \in OrdersByStart(deleted.statistics_short_term)}
            ELSE {Outcome(deleted, Success, FALSE)}

_delete_statistic_sync(db, stat_id, statistic_type) ==
    LET table == IF statistic_type = "short_term" THEN db.statistics_short_term
                 ELSE db.statistics
    IN  IF stat_id \notin DOMAIN table
        THEN {Outcome(db, Failure(StatisticNotFound(stat_id)), FALSE)}
        ELSE
        LET stat_start_ts == table[stat_id].start_ts
            stat_metadata_id == table[stat_id].metadata_id
            rest == [r \in DOMAIN table \ {stat_id} |-> table[r]]
            deleted == IF statistic_type = "short_term"
                       THEN [db EXCEPT !.statistics_short_term = rest]
                       ELSE [db EXCEPT !.statistics = rest]
            start_ts_hour == (stat_start_ts \div 3600) * 3600
        IN  IF statistic_type = "short_term"
               /\ delete_short_term_locked(db, stat_metadata_id, stat_start_ts)
            THEN {Outcome(db, Failure(CannotDeleteShortTerm), FALSE)}
            ELSE IF statistic_type # "short_term"
                    /\ delete_long_term_locked(db, stat_metadata_id, stat_start_ts)
            THEN {Outcome(db, Failure(CannotDeleteLongTerm), FALSE)}
            ELSE IF statistic_type = "short_term"
            THEN {Outcome(_recalculate_long_term_stat(
                              deleted, stat_metadata_id, start_ts_hour, by_start).db,
                          Success, FALSE) :
                    by_start \in OrdersByStart(deleted.statistics_short_term)}
            ELSE {Outcome(deleted, Success, FALSE)}

-----------------------------------------------------------------------------
(* The handlers when a recalculation raises.  The exception is caught by   *)
(* the handler's inner try / except and logged.  In _update_record_sync    *)
(* the commit that follows the cascade is skipped and the session is       *)
(* closed with the changes of the earlier steps uncommitted; in            *)
(* _update_statistic_sync the commit comes after the except clause.  The   *)
(* trace records the raising call with kind "raised".                      *)

raised(db, start_ts) ==
    [db EXCEPT !.calls = Append(@, [kind |-> "raised", start_ts |-> start_ts])]

\* the session when a query of recalculation number k of the cascade raises: the
\* recalculations before it have run, this one has changed nothing
_update_statistics_after_state_change_raising(db, state_record, old_ts, new_last_updated) ==
    LET new_ts == IF new_last_updated # None THEN Some(timestamp(new_last_updated[1]))
                  ELSE Some(state_record.last_updated_ts)
        a5 == affected_5min(old_ts, new_ts)
        ah == affected_hour(old_ts, new_ts)
        meta == {m \in db.states_meta : m.metadata_id = state_record.metadata_id}
        entity_id == (CHOOSE m \in meta : TRUE).entity_id
        stat_meta == {m \in db.statistics_meta : m.statistic_id = entity_id}
        stat_meta_id == (CHOOSE m \in stat_meta : TRUE).id
    IN  IF a5 = {} \/ meta = {} \/ stat_meta = {} THEN {}
        ELSE {LET n5 == IF k - 1 < Len(o5) THEN k - 1 ELSE Len(o5)
                  nh == k - 1 - n5
                  at == IF k <= Len(o5) THEN o5[k] ELSE oh[k - Len(o5)]
              IN  raised(recalculate_hour_loop(
                             recalculate_5min_loop(db, stat_meta_id, entity_id,
                                                   SubSeq(o5, 1, n5), by_updated),
                             stat_meta_id, SubSeq(oh, 1, nh), by_start),
                         at) :
                o5 \in SeqsOf(a5), oh \in SeqsOf(ah),
                by_updated \in OrdersByLastUpdated(db.states),
                by_start \in OrdersByStart(db.statistics_short_term),
                k \in 1..(Cardinality(a5) + Cardinality(ah))}

\* mutant: the exception of the cascade reaches the outer except clause
_update_record_sync_raising_propagates(db, state_id, new_state, new_attributes, new_last_changed, new_last_updated) ==
    IF state_id \notin DOMAIN db.states \/ ~cascade_wanted(new_state, new_last_updated)
    THEN {}
    ELSE {Outcome(raised(db, db.states[state_id].last_updated_ts),
                  Failure("recalculation failed"), TRUE)}

\* mutant: what the recalculations before the raising one changed is committed
_update_record_sync_raising_commits_partial(db, state_id, new_state, new_attributes, new_last_changed, new_last_updated) ==
    LET state == IF state_id \in DOMAIN db.states THEN Some(db.states[state_id]) ELSE None
    IN  IF state = None THEN {}
        ELSE
        LET old_ts == Some(state[1].last_updated_ts)
            row == [state[1] EXCEPT
                      !.state = IF new_state # None THEN new_state[1] ELSE @,
                      !.attributes = IF new_attributes # None
                                     THEN json_dumps(new_attributes[1]) ELSE @,
                      !.last_changed_ts = IF new_last_changed # None
                                          THEN timestamp(new_last_changed[1]) ELSE @,
                      !.last_updated_ts = IF new_last_updated # None
                                          THEN timestamp(new_last_updated[1]) ELSE @]
            committed == [db EXCEPT !.states[state_id] = row]
        IN  IF cascade_wanted(new_state, new_last_updated)
            THEN {Outcome(d, Success, TRUE) :
                    d \in _update_statistics_after_state_change_raising(
                              committed, row, old_ts, new_last_updated)}
            ELSE {}

\* _update_record_sync when a recalculation of its cascade raises
_update_record_sync_raising(db, state_id, new_state, new_attributes, new_last_changed, new_last_updated) ==
    LET state == IF state_id \in DOMAIN db.states THEN Some(db.states[state_id]) ELSE None
    IN  IF state = None THEN {}
        ELSE
        LET old_ts == Some(state[1].last_updated_ts)
            row == [state[1] EXCEPT
                      !.state = IF new_state # None THEN new_state[1] ELSE @,
                      !.attributes = IF new_attributes # None
                                     THEN json_dumps(new_attributes[1]) ELSE @,
                      !.last_changed_ts = IF new_last_changed # None
                                          THEN timestamp(new_last_changed[1]) ELSE @,
                      !.last_updated_ts = IF new_last_updated # None
                                          THEN timestamp(new_last_updated[1]) ELSE @]
            committed == [db EXCEPT !.states[state_id] = row]
        IN  IF cascade_wanted(new_state, new_last_updated)
            THEN {Outcome([committed EXCEPT !.calls = d.calls], Success, TRUE) :
                    d \in _update_statistics_after_state_change_raising(
                              committed, row, old_ts, new_last_updated)}
            ELSE {}

\* _update_statistic_sync on a 5-minute row when _recalculate_long_term_stat raises
_update_statistic_sync_raising(db, stat_id, mean, min_val, max_val, sum_val, state, start, statistic_type) ==
    LET table == db.statistics_short_term
    IN  IF statistic_type # "short_term" \/ stat_id \notin DOMAIN table THEN {}
        ELSE IF update_short_term_locked(db, table[stat_id]) THEN {}
        ELSE
        LET stat == assign_statistic(table[stat_id], mean, min_val, max_val, sum_val,
                                     state, start)
            flushed == [db EXCEPT !.statistics_short_term[stat_id] = stat]
            effective_ts == IF start # None THEN timestamp(start[1]) ELSE stat.start_ts
            start_ts_hour == (effective_ts \div 3600) * 3600
        IN  {Outcome(raised(flushed, start_ts_hour), Success, FALSE)}

\* mutant: the flag of an hourly row is computed from the States rows of its hour
has_source_data_from_states(db, entity_id, stat, statistic_type) ==
    Cardinality({i \in DOMAIN db.states :
        /\ JoinedEntity(db, i, entity_id)
        /\ db.states[i].last_updated_ts >= stat.start_ts
        /\ db.states[i].last_updated_ts
             < stat.start_ts + (IF statistic_type = "short_term" THEN 300 ELSE 3600)}) > 0

\* the has_source_data flag of a listed row (lines 1101-1130)
has_source_data(db, entity_id, stat, statistic_type) ==
    IF statistic_type = "short_term"
    THEN LET state_count ==
                 Cardinality({i \in DOMAIN db.states :
                     /\ JoinedEntity(db, i, entity_id)
                     /\ db.states[i].last_updated_ts >= stat.start_ts
                     /\ db.states[i].last_updated_ts < stat.start_ts + 300})
         IN  state_count > 0
    ELSE LET short_term_count ==
                 Cardinality({r \in DOMAIN db.statistics_short_term :
                     /\ db.statistics_short_term[r].metadata_id = stat.metadata_id
                     /\ db.statistics_short_term[r].start_ts >= stat.start_ts
                     /\ db.statistics_short_term[r].start_ts < stat.start_ts + 3600})
         IN  short_term_count > 0

\* the sequence s from its last element to its first
Reversed(s) == [k \in 1..Len(s) |-> s[Len(s) + 1 - k]]

\* _get_statistics_sync: the rows of the statistic, latest start first, at most limit
\* of them, each with its flag; the start and last_reset texts are left out
_get_statistics_sync(db, entity_id, start_time, end_time, limit, statistic_type) ==
    LET table == IF statistic_type = "short_term" THEN db.statistics_short_term
                 ELSE db.statistics
        stats == {r \in DOMAIN table :
                    /\ \E m \in db.statistics_meta :
                          m.id = table[r].metadata_id /\ m.statistic_id = entity_id
                    /\ start_time # None => table[r].start_ts >= timestamp(start_time[1])
                    /\ end_time # None => table[r].start_ts <= timestamp(end_time[1])}
        record(r) ==
            [id |-> r, statistic_id |-> entity_id, statistic_type |-> statistic_type,
             mean |-> table[r].mean, min |-> table[r].min, max |-> table[r].max,
             sum |-> table[r].sum, state |-> table[r].state,
             has_source_data |-> has_source_data(db, entity_id, table[r], statistic_type)]
        limited(order) == SubSeq(order, 1, IF Len(order) < limit THEN Len(order) ELSE limit)
    IN  {[success |-> TRUE, error |-> "",
          records |-> [k \in 1..Len(limited(Reversed(asc))) |->
                          record(limited(Reversed(asc))[k])]] :
            asc \in AscendingBy(table, "start_ts", stats)}

\* the session when the count query of a guard raises: the except clause around the
\* query logs a warning and the handler goes on
check_raised(db, start_ts) ==
    [db EXCEPT !.calls = Append(@, [kind |-> "check_raised", start_ts |-> start_ts])]

\* str(err) when the database has aborted the transaction of the failed query and
\* refuses the statements that follow it
TransactionAborted == "InternalError: current transaction is aborted"

\* _update_statistic_sync when the count query of its guard raises (lines 1205-1206,
\* 1224-1225): the assignments, the flush, the cascade and the commit follow as if the
\* guard had passed; on a database that aborts the transaction with the failed query
\* the flush raises and the outer except clause returns the failure
_update_statistic_sync_check_raising(db, stat_id, mean, min_val, max_val, sum_val, state, start, statistic_type) ==
    LET table == IF statistic_type = "short_term" THEN db.statistics_short_term
                 ELSE db.statistics
    IN  IF stat_id \notin DOMAIN table THEN {}
        ELSE IF /\ statistic_type = "short_term"
                /\ {m \in db.statistics_meta : m.id = table[stat_id].metadata_id} = {}
        THEN {}
        ELSE
        LET noted == check_raised(db, table[stat_id].start_ts)
            stat == assign_statistic(table[stat_id], mean, min_val, max_val, sum_val,
                                     state, start)
            flushed == IF statistic_type = "short_term"
                       THEN [noted EXCEPT !.statistics_short_term[stat_id] = stat]
                       ELSE [noted EXCEPT !.statistics[stat_id] = stat]
            effective_ts == IF start # None THEN timestamp(start[1]) ELSE stat.start_ts
            start_ts_hour == (effective_ts \div 3600) * 3600
        IN  {Outcome(noted, Failure(TransactionAborted), FALSE)}
            \cup
            (IF flush_may_raise(table, stat_id, stat)
             THEN {Outcome(noted, Failure(IntegrityError), FALSE)} ELSE {})
            \cup
            (IF statistic_type = "short_term"
             THEN {Outcome(_recalculate_long_term_stat(
                               flushed, stat.metadata_id, start_ts_hour, by_start).db,
                           Success, FALSE) :
                     by_start \in OrdersByStart(flushed.statistics_short_term)}
             ELSE {Outcome(flushed, Success, FALSE)})

\* _delete_statistic_sync when the count query of its guard raises (lines 1313-1314,
\* 1332-1333)
_delete_statistic_sync_check_raising(db, stat_id, statistic_type) ==
    LET table == IF statistic_type = "short_term" THEN db.statistics_short_term
                 ELSE db.statistics
    IN  IF stat_id \notin DOMAIN table THEN {}
        ELSE IF /\ statistic_type = "short_term"
                /\ {m \in db.statistics_meta : m.id = table[stat_id].metadata_id} = {}
        THEN {}
        ELSE
        LET stat_start_ts == table[stat_id].start_ts
            stat_metadata_id == table[stat_id].metadata_id
            noted == check_raised(db, stat_start_ts)
            rest == [r \in DOMAIN table \ {stat_id} |-> table[r]]
            deleted == IF statistic_type = "short_term"
                       THEN [noted EXCEPT !.statistics_short_term = rest]
                       ELSE [noted EXCEPT !.statistics = rest]
            start_ts_hour == (stat_start_ts \div 3600) * 3600
        IN  {Outcome(noted, Failure(TransactionAborted), FALSE)}
            \cup
            (IF statistic_type = "short_term"
             THEN {Outcome(_recalculate_long_term_stat(
                               deleted, stat_metadata_id, start_ts_hour, by_start).db,
                           Success, FALSE) :
                     by_start \in OrdersByStart(deleted.statistics_short_term)}
             ELSE {Outcome(deleted, Success, FALSE)})

-----------------------------------------------------------------------------
(* The initial database.  sensor.a has three state records, each referring *)
(* back to the one before: two numeric ones in the 5-minute period at 0    *)
(* and a non-numeric one in the period at 300; the recorder has compiled   *)
(* its 5-minute rows at 0, 300 and 3600 and its hourly rows at 0, 3600 and *)
(* 7200.  sensor.c has a 5-minute row at 7200 and no state record;         *)
(* sensor.b has neither a state record nor statistics yet.                 *)

StateRow(metadata_id, state, attributes, last_changed_ts, last_updated_ts, old_state_id) ==
    [metadata_id |-> metadata_id, state |-> state, attributes |-> attributes,
     last_changed_ts |-> last_changed_ts, last_updated_ts |-> last_updated_ts,
     old_state_id |-> old_state_id]

ShortTermRow(metadata_id, start_ts, mean, min, max, state, state_id) ==
    [metadata_id |-> metadata_id, start_ts |-> start_ts, mean |-> Some(Flt(mean)),
     min |-> Some(Flt(min)), max |-> Some(Flt(max)), sum |-> None,
     state |-> Some(Flt(state)), state_id |-> state_id]

LongTermRow(metadata_id, start_ts, mean, min, max, state) ==
    [metadata_id |-> metadata_id, start_ts |-> start_ts, mean |-> Some(Flt(mean)),
     min |-> Some(Flt(min)), max |-> Some(Flt(max)), sum |-> None,
     state |-> Some(Flt(state))]

Init ==
    /\ states = (1 :> StateRow(1, "10", "{}", 0, 0, None)
                 @@ 2 :> StateRow(1, "20", "{}", 100, 100, Some(1))
                 @@ 3 :> StateRow(1, "on", "{}", 300, 300, Some(2)))
    /\ states_meta = {[metadata_id |-> 1, entity_id |-> "sensor.a"]}
    /\ statistics_meta = {[id |-> 2, statistic_id |-> "sensor.a"],
                          [id |-> 3, statistic_id |-> "sensor.c"]}
    /\ statistics_short_term = (1 :> ShortTermRow(2, 0, 15, 10, 20, 20, Some(2))
                                @@ 2 :> ShortTermRow(2, 300, 5, 5, 5, 5, None)
                                @@ 3 :> ShortTermRow(2, 3600, 30, 30, 30, 30, None)
                                @@ 4 :> ShortTermRow(3, 7200, 50, 50, 50, 50, None))
    /\ statistics = (1 :> LongTermRow(2, 0, 10, 5, 20, 5)
                     @@ 2 :> LongTermRow(2, 3600, 30, 30, 30, 30)
                     @@ 3 :> LongTermRow(2, 7200, 40, 40, 40, 40))
    /\ next_state_id = 4
    /\ next_metadata_id = 2
    /\ ncalls = 0
    /\ before = DB
    /\ last = [op |-> "init", kind |-> "", id |-> 0, args |-> << >>,
               result |-> Success, cascade |-> FALSE, calls |-> << >>]
    /\ sessions = << >>

-----------------------------------------------------------------------------
(* The actions: one call of a handler, committed *)

Commit(out, op, kind, id, args) ==
    /\ states' = out.db.states
    /\ states_meta' = out.db.states_meta
    /\ statistics_meta' = out.db.statistics_meta
    /\ statistics_short_term' = out.db.statistics_short_term
    /\ statistics' = out.db.statistics
    /\ next_state_id' = out.db.next_state_id
    /\ next_metadata_id' = out.db.next_metadata_id
    /\ ncalls' = ncalls + 1
    /\ before' = DB
    /\ last' = [op |-> op, kind |-> kind, id |-> id, args |-> args,
                result |-> out.result, cascade |-> out.cascade, calls |-> out.db.calls]
    /\ UNCHANGED sessions

\* the names of the optional arguments a request supplies
Supplied(req) == {f \in DOMAIN req : req[f] # None}

CreateRecord(entity_id, state, attributes, last_changed, last_updated) ==
    /\ ncalls < MaxCalls
    /\ \E out \in _create_record_sync(DB, entity_id, state, attributes,
                                      last_changed, last_updated) :
          Commit(out, "create_record", "state", next_state_id,
                 [entity_id |-> entity_id, state |-> state, attributes |-> attributes,
                  last_changed |-> last_changed, last_updated |-> last_updated])

UpdateRecord(state_id, req) ==
    /\ ncalls < MaxCalls
    /\ \E out \in _update_record_sync(DB, state_id, req.state, req.attributes,
                                      req.last_changed, req.last_updated) :
          Commit(out, "update_record", "state", state_id, req)

DeleteRecord(state_id) ==
    /\ ncalls < MaxCalls
    /\ \E out \in _delete_record_sync(DB, state_id) :
          Commit(out, "delete_record", "state", state_id, << >>)

UpdateStatistic(stat_id, req, statistic_type) ==
    /\ ncalls < MaxCalls
    /\ \E out \in _update_statistic_sync(DB, stat_id, req.mean, req.min, req.max,
                                         req.sum, req.state, req.start, statistic_type) :
          Commit(out, "update_statistic", statistic_type, stat_id, req)

DeleteStatistic(stat_id, statistic_type) ==
    /\ ncalls < MaxCalls
    /\ \E out \in _delete_statistic_sync(DB, stat_id, statistic_type) :
          Commit(out, "delete_statistic", statistic_type, stat_id, << >>)

-----------------------------------------------------------------------------
(* The requests explored *)

Entities == {"sensor.a", "sensor.b"}

CreateRecordRequests ==
    [entity_id : {"sensor.a"}, state : {"20", "on"}, attributes : {{}},
     last_updated : {datetime(100), datetime(3600)}]
    \cup [entity_id : {"sensor.b"}, state : {"20"}, attributes : {{}},
          last_updated : {datetime(100)}]

\* a new state, or new attributes, or a new last_changed, or a new last_updated
UpdateRecordRequests ==
    [state : {Some("20"), Some("on")}, attributes : {None}, last_changed : {None},
     last_updated : {None}]
    \cup [state : {None}, attributes : {Some({<<"unit", "W">>})}, last_changed : {None},
          last_updated : {None}]
    \cup [state : {None}, attributes : {None}, last_changed : {Some(datetime(3600))},
          last_updated : {None}]
    \cup [state : {None}, attributes : {None}, last_changed : {None},
          last_updated : {Some(datetime(100)), Some(datetime(300)), Some(datetime(3600))}]

StatisticRequests ==
    [mean : {Some(Flt(7))}, min : {None}, max : {None}, sum : {None},
     state : Opt({Flt(8)}), start : {None}]

StatisticTypes == {"short_term", "long_term"}

Next ==
    \/ \E req \in CreateRecordRequests :
            CreateRecord(req.entity_id, req.state, req.attributes,
                         req.last_updated, req.last_updated)
    \/ \E state_id \in 1..next_state_id, req \in UpdateRecordRequests :
            UpdateRecord(state_id, req)
    \/ \E state_id \in 1..next_state_id : DeleteRecord(state_id)
    \/ \E stat_id \in 1..4, req \in StatisticRequests, t \in StatisticTypes :
            UpdateStatistic(stat_id, req, t)
    \/ \E stat_id \in 1..4, t \in StatisticTypes : DeleteStatistic(stat_id, t)

Spec == Init /\ [][Next]_vars

\* the state-record handlers alone
NextSamples ==
    \/ \E req \in CreateRecordRequests :
            CreateRecord(req.entity_id, req.state, req.attributes,
                         req.last_updated, req.last_updated)
    \/ \E state_id \in 1..next_state_id, req \in UpdateRecordRequests :
            UpdateRecord(state_id, req)
    \/ \E state_id \in 1..next_state_id : DeleteRecord(state_id)

SpecSamples == Init /\ [][NextSamples]_vars

\* the handlers with a recalculation that raises
UpdateRecordRaising(state_id, req) ==
    /\ ncalls < MaxCalls
    /\ \E out \in _update_record_sync_raising(DB, state_id, req.state, req.attributes,
                                              req.last_changed, req.last_updated) :
          Commit(out, "update_record", "state", state_id, req)

UpdateStatisticRaising(stat_id, req, statistic_type) ==
    /\ ncalls < MaxCalls
    /\ \E out \in _update_statistic_sync_raising(DB, stat_id, req.mean, req.min, req.max,
                                                 req.sum, req.state, req.start,
                                                 statistic_type) :
          Commit(out, "update_statistic", statistic_type, stat_id, req)

\* the edit of a state record and the edit of a 5-minute row, each with and without
\* a recalculation that raises
NextRaising ==
    \/ \E state_id \in 1..next_state_id, req \in UpdateRecordRequests :
            UpdateRecord(state_id, req)
    \/ \E state_id \in 1..next_state_id, req \in UpdateRecordRequests :
            UpdateRecordRaising(state_id, req)
    \/ \E stat_id \in 1..4, req \in StatisticRequests :
            UpdateStatistic(stat_id, req, "short_term")
    \/ \E stat_id \in 1..4, req \in StatisticRequests :
            UpdateStatisticRaising(stat_id, req, "short_term")

SpecRaising == Init /\ [][NextRaising]_vars

UpdateStatisticCheckRaising(stat_id, req, statistic_type) ==
    /\ ncalls < MaxCalls
    /\ \E out \in _update_statistic_sync_check_raising(DB, stat_id, req.mean, req.min,
                                                       req.max, req.sum, req.state,
                                                       req.start, statistic_type) :
          Commit(out, "update_statistic", statistic_type, stat_id, req)

DeleteStatisticCheckRaising(stat_id, statistic_type) ==
    /\ ncalls < MaxCalls
    /\ \E out \in _delete_statistic_sync_check_raising(DB, stat_id, statistic_type) :
          Commit(out, "delete_statistic", statistic_type, stat_id, << >>)

\* the edit and the delete of a statistics row, each with and without a guard whose
\* count query raises
NextGuardRaising ==
    \/ \E stat_id \in 1..4, req \in StatisticRequests, statistic_type \in StatisticTypes :
            UpdateStatistic(stat_id, req, statistic_type)
    \/ \E stat_id \in 1..4, statistic_type \in StatisticTypes :
            DeleteStatistic(stat_id, statistic_type)
    \/ \E stat_id \in 1..4, req \in StatisticRequests, statistic_type \in StatisticTypes :
            UpdateStatisticCheckRaising(stat_id, req, statistic_type)
    \/ \E stat_id \in 1..4, statistic_type \in StatisticTypes :
            DeleteStatisticCheckRaising(stat_id, statistic_type)

SpecGuardRaising == Init /\ [][NextGuardRaising]_vars

\* one call of the statistics listing; it reads and changes nothing
GetStatistics(entity_id, start_time, limit, statistic_type) ==
    /\ ncalls < MaxCalls
    /\ \E result \in _get_statistics_sync(DB, entity_id, start_time, None, limit,
                                           statistic_type) :
          last' = [op |-> "get_statistics", kind |-> statistic_type, id |-> 0,
                   args |-> [entity_id |-> entity_id, start_time |-> start_time,
                             limit |-> limit],
                   result |-> result, cascade |-> FALSE, calls |-> << >>]
    /\ ncalls' = ncalls + 1
    /\ before' = DB
    /\ UNCHANGED <<tables, next_state_id, next_metadata_id, sessions>>

\* the listing among the handlers that change what it reports
NextListing ==
    \/ \E state_id \in 1..next_state_id, req \in UpdateRecordRequests :
            UpdateRecord(state_id, req)
    \/ \E state_id \in 1..next_state_id : DeleteRecord(state_id)
    \/ \E stat_id \in 1..4, statistic_type \in StatisticTypes :
            DeleteStatistic(stat_id, statistic_type)
    \/ \E entity_id \in {"sensor.a", "sensor.c"}, start_time \in {None, Some(datetime(300))},
          limit \in {1, 100}, statistic_type \in StatisticTypes :
            GetStatistics(entity_id, start_time, limit, statistic_type)

SpecListing == Init /\ [][NextListing]_vars

\* edits of a statistics row that give it a new start: onto another period, onto a
\* time that is no period start, into another hour
StatisticStartRequests ==
    [mean : {None}, min : {None}, max : {None}, sum : {None}, state : {None},
     start : {Some(datetime(300)), Some(datetime(450)), Some(datetime(7200))}]

\* every handler, the edits of a statistics row with and without a new start
NextRollups ==
    \/ \E req \in CreateRecordRequests :
            CreateRecord(req.entity_id, req.state, req.attributes,
                         req.last_updated, req.last_updated)
    \/ \E state_id \in 1..next_state_id, req \in UpdateRecordRequests :
            UpdateRecord(state_id, req)
    \/ \E state_id \in 1..next_state_id : DeleteRecord(state_id)
    \/ \E stat_id \in 1..4, req \in StatisticRequests \cup StatisticStartRequests,
          t \in StatisticTypes :
            UpdateStatistic(stat_id, req, t)
    \/ \E stat_id \in 1..4, t \in StatisticTypes : DeleteStatistic(stat_id, t)

SpecRollups == Init /\ [][NextRollups]_vars

-----------------------------------------------------------------------------
(* _recalculate_short_term_stat on its own, over every small States table  *)
(* of two entities: each row a value, an entity and a last_updated_ts      *)
(* inside or outside the period at 0.  The 5-minute row of sensor.a at 0   *)
(* may exist or not; its row at 300 and the hourly row at 0 exist.         *)

\* States rows in a table, at most
MaxSamples == 3

\* calls of the recalculation in one behaviour
MaxRecalculations == 2

SampleRows ==
    {StateRow(m, v, "{}", t, t, None) : m \in {1, 2}, v \in {"10", "20", "30", "on"},
                                       t \in {0, 100, 300}}

InitRecalculate ==
    /\ \E n \in 0..MaxSamples : states \in [1..n -> SampleRows]
    /\ states_meta = {[metadata_id |-> 1, entity_id |-> "sensor.a"],
                      [metadata_id |-> 2, entity_id |-> "sensor.b"]}
    /\ statistics_meta = {[id |-> 2, statistic_id |-> "sensor.a"]}
    /\ \E exists \in BOOLEAN :
          statistics_short_term =
              [r \in (IF exists THEN {1} ELSE {}) \cup {2} |->
                  IF r = 1 THEN ShortTermRow(2, 0, 7, 6, 8, 8, None)
                  ELSE ShortTermRow(2, 300, 5, 5, 5, 5, None)]
    /\ statistics = (1 :> LongTermRow(2, 0, 6, 5, 8, 5))
    /\ next_state_id = MaxSamples + 1
    /\ next_metadata_id = 3
    /\ ncalls = 0
    /\ before = DB
    /\ last = [op |-> "init", kind |-> "", id |-> 0, args |-> << >>,
               result |-> Success, cascade |-> FALSE, calls |-> << >>]
    /\ sessions = << >>

\* one call of _recalculate_short_term_stat for sensor.a, committed by its caller;
\* the result recorded is the bool it returns
RecalculateShortTerm(start_ts_5min) ==
    /\ ncalls < MaxRecalculations
    /\ \E by_updated \in OrdersByLastUpdated(states) :
          LET r == _recalculate_short_term_stat(DB, 2, "sensor.a", start_ts_5min, by_updated)
          IN  Commit(Outcome(r.db, r.updated, FALSE), "_recalculate_short_term_stat",
                     "short_term", start_ts_5min, by_updated)

NextRecalculate == \E start_ts_5min \in {0} : RecalculateShortTerm(start_ts_5min)

SpecRecalculate == InitRecalculate /\ [][NextRecalculate]_vars

-----------------------------------------------------------------------------
(* _recalculate_long_term_stat on its own, over every small                *)
(* StatisticsShortTerm table with unique (metadata_id, start_ts): rows of  *)
(* two statistics, inside and outside the hour at 0, each column present   *)
(* or NULL.  The hourly row at 0 may exist or not; the one at 3600 exists. *)

\* StatisticsShortTerm rows in a table, at most
MaxBuckets == 3

BucketKeys == {<<2, 0>>, <<2, 300>>, <<2, 3600>>, <<3, 300>>}

\* the columns of a 5-minute row that are NULL
BucketNulls == {{}, {"mean"}, {"min", "max"}, {"state"}, {"mean", "min", "max", "state"}}

BucketRow(key, v, nulls) ==
    [metadata_id |-> key[1], start_ts |-> key[2],
     mean |-> IF "mean" \in nulls THEN None ELSE Some(Flt(v)),
     min |-> IF "min" \in nulls THEN None ELSE Some(Flt(v - 5)),
     max |-> IF "max" \in nulls THEN None ELSE Some(Flt(v + 5)),
     sum |-> None,
     state |-> IF "state" \in nulls THEN None ELSE Some(Flt(v + 1)),
     state_id |-> None]

InitRecalculateHourly ==
    /\ states = << >>
    /\ states_meta = {[metadata_id |-> 1, entity_id |-> "sensor.a"]}
    /\ statistics_meta = {[id |-> 2, statistic_id |-> "sensor.a"],
                          [id |-> 3, statistic_id |-> "sensor.c"]}
    /\ \E keys \in UNION {SeqsOf(K) : K \in {k \in SUBSET BucketKeys :
                                                Cardinality(k) <= MaxBuckets}} :
          \E vs \in [1..Len(keys) -> {10, 20, 40}], ns \in [1..Len(keys) -> BucketNulls] :
              statistics_short_term =
                  [r \in 1..Len(keys) |-> BucketRow(keys[r], vs[r], ns[r])]
    /\ \E exists \in BOOLEAN :
          statistics =
              [r \in (IF exists THEN {1} ELSE {}) \cup {2} |->
                  IF r = 1 THEN LongTermRow(2, 0, 6, 5, 8, 5)
                  ELSE LongTermRow(2, 3600, 30, 30, 30, 30)]
    /\ next_state_id = 1
    /\ next_metadata_id = 2
    /\ ncalls = 0
    /\ before = DB
    /\ last = [op |-> "init", kind |-> "", id |-> 0, args |-> << >>,
               result |-> Success, cascade |-> FALSE, calls |-> << >>]
    /\ sessions = << >>

\* one call of _recalculate_long_term_stat for the statistic of sensor.a, committed by
\* its caller; the result recorded is the bool it returns
RecalculateLongTerm(start_ts_hour) ==
    /\ ncalls < MaxRecalculations
    /\ \E by_start \in OrdersByStart(statistics_short_term) :
          LET r == _recalculate_long_term_stat(DB, 2, start_ts_hour, by_start)
          IN  Commit(Outcome(r.db, r.updated, FALSE), "_recalculate_long_term_stat",
                     "long_term", start_ts_hour, by_start)

NextRecalculateHourly == \E start_ts_hour \in {0} : RecalculateLongTerm(start_ts_hour)

SpecRecalculateHourly == InitRecalculateHourly /\ [][NextRecalculateHourly]_vars

-----------------------------------------------------------------------------
(* The vocabulary of the properties *)

\* the entity a state record belongs to, and the entity a statistics row belongs to
EntityOfState(db, i) ==
    {m.entity_id : m \in {x \in db.states_meta : x.metadata_id = db.states[i].metadata_id}}
EntityOfStatistic(db, metadata_id) ==
    {m.statistic_id : m \in {x \in db.statistics_meta : x.id = metadata_id}}

\* the raw samples of a 5-minute bucket: the state records of its entity whose
\* updated_at lies in [start, start + 300); and the numeric ones among them
RawSamplesIn(db, metadata_id, start) ==
    {i \in DOMAIN db.states :
        /\ EntityOfState(db, i) \cap EntityOfStatistic(db, metadata_id) # {}
        /\ start <= db.states[i].last_updated_ts
        /\ db.states[i].last_updated_ts < start + 300}
NumericSamplesIn(db, metadata_id, start) ==
    {i \in RawSamplesIn(db, metadata_id, start) : db.states[i].state \in {"5", "10", "20", "30"}}

\* the short-term buckets inside an hourly bucket's window
ShortTermIn(db, metadata_id, start) ==
    {r \in DOMAIN db.statistics_short_term :
        /\ db.statistics_short_term[r].metadata_id = metadata_id
        /\ start <= db.statistics_short_term[r].start_ts
        /\ db.statistics_short_term[r].start_ts < start + 3600}

\* the numeric value of a sample (the model's numeric samples are whole numbers)
ValueOf(db, i) == float(db.states[i].state)[1].n

RECURSIVE TotalOf(_, _)
TotalOf(db, ids) ==
    IF ids = {} THEN 0
    ELSE LET i == CHOOSE x \in ids : TRUE IN ValueOf(db, i) + TotalOf(db, ids \ {i})

\* row's mean / min / max are the mean / min / max of the values of the samples ids
IsAggregateOf(db, row, ids) ==
    /\ row.mean # None
    /\ row.mean[1].n * Cardinality(ids) = TotalOf(db, ids) * row.mean[1].d
    /\ \E i \in ids : row.min = Some(Flt(ValueOf(db, i)))
    /\ \A i \in ids : row.min # None /\ row.min[1].n <= ValueOf(db, i) * row.min[1].d
    /\ \E i \in ids : row.max = Some(Flt(ValueOf(db, i)))
    /\ \A i \in ids : row.max # None /\ row.max[1].n >= ValueOf(db, i) * row.max[1].d

\* what the last call was
Called(op, kind) == last.op = op /\ last.kind = kind
RollupCall(kind) == last.op \in {"update_statistic", "delete_statistic"} /\ last.kind = kind
GuardRejected ==
    last.result.error \in {CannotEditShortTerm, CannotDeleteShortTerm,
                           CannotEditLongTerm, CannotDeleteLongTerm}
NotFound ==
    \/ last.kind = "state" /\ last.result.error = StateNotFound(last.id)
    \/ last.kind # "state" /\ last.result.error = StatisticNotFound(last.id)

-----------------------------------------------------------------------------
(* C1 *)

\* C1: every short-term bucket whose window holds at least one numeric sample of its
\* entity has the mean, min and max of those samples; claimed of every state that
\* create-sample, edit-sample and delete-sample reach (specification SpecSamples).
C1_ShortTermMatchesSamples ==
    \A r \in DOMAIN statistics_short_term :
        LET row == statistics_short_term[r]
            ids == NumericSamplesIn(DB, row.metadata_id, row.start_ts)
        IN  ids # {} => IsAggregateOf(DB, row, ids)

-----------------------------------------------------------------------------
(* C2 *)

\* C2: an edit or a delete of a short-term bucket row whose window holds a raw sample
\* of its entity at the time of the request fails and leaves the row as it was.
C2_ShortTermGuard ==
    (/\ RollupCall("short_term")
     /\ last.id \in DOMAIN before.statistics_short_term
     /\ RawSamplesIn(before, before.statistics_short_term[last.id].metadata_id,
                     before.statistics_short_term[last.id].start_ts) # {})
    => /\ ~last.result.success
       /\ last.id \in DOMAIN statistics_short_term
       /\ statistics_short_term[last.id] = before.statistics_short_term[last.id]

\* C2 witness: an edit of a bucket with a raw sample in its window was refused
C2_Witness ==
    /\ Called("update_statistic", "short_term")
    /\ last.id \in DOMAIN before.statistics_short_term
    /\ RawSamplesIn(before, before.statistics_short_term[last.id].metadata_id,
                    before.statistics_short_term[last.id].start_ts) # {}
    /\ GuardRejected
    /\ statistics_short_term = before.statistics_short_term

-----------------------------------------------------------------------------
(* C3 *)

\* the results a direct edit of short-term bucket row b can have on database db
EditResults(db, b) ==
    {o.result : o \in UNION {_update_statistic_sync(db, b, req.mean, req.min, req.max,
                                                    req.sum, req.state, req.start,
                                                    "short_term") :
                                req \in StatisticRequests}}

\* the last call was a delete-sample that removed the one raw sample of bucket b's window
DeletedOnlySampleOf(b) ==
    /\ Called("delete_record", "state")
    /\ last.result.success
    /\ b \in DOMAIN before.statistics_short_term
    /\ RawSamplesIn(before, before.statistics_short_term[b].metadata_id,
                    before.statistics_short_term[b].start_ts) = {last.id}

\* C3 as claimed: a bucket whose window holds exactly one raw sample rejects a direct
\* edit, and once delete-sample has removed that sample the same edit succeeds.
C3_EditSucceedsAfterDelete ==
    \A b \in DOMAIN before.statistics_short_term :
        DeletedOnlySampleOf(b) =>
            /\ EditResults(before, b) = {Failure(CannotEditShortTerm)}
            /\ EditResults(DB, b) = {Success}

\* C3 as amended: ... the same edit succeeds unless the bucket's last-value-sample
\* reference was the deleted sample: then delete-sample has removed the bucket row
\* with the sample, and the edit ends in not-found.
C3_EditAfterDelete ==
    \A b \in DOMAIN before.statistics_short_term :
        DeletedOnlySampleOf(b) =>
            /\ EditResults(before, b) = {Failure(CannotEditShortTerm)}
            /\ IF before.statistics_short_term[b].state_id = Some(last.id)
               THEN /\ b \notin DOMAIN statistics_short_term
                    /\ EditResults(DB, b) = {Failure(StatisticNotFound(b))}
               ELSE /\ b \in DOMAIN statistics_short_term
                    /\ EditResults(DB, b) = {Success}

\* C3 witness: the one sample of a bucket's window was deleted and the edit now succeeds
C3_Witness ==
    \E b \in DOMAIN before.statistics_short_term :
        /\ DeletedOnlySampleOf(b)
        /\ EditResults(before, b) = {Failure(CannotEditShortTerm)}
        /\ EditResults(DB, b) = {Success}

-----------------------------------------------------------------------------
(* C4 *)

\* a rollup row after an edit request was applied to it
Applied(row, req) ==
    [f \in DOMAIN row |->
        IF f \in {"mean", "min", "max", "sum", "state"} /\ req[f] # None THEN req[f]
        ELSE IF f = "start_ts" /\ req.start # None THEN req.start[1].epoch
        ELSE row[f]]

\* C4: an edit or a delete of an hourly bucket row is refused, the row left as it was,
\* when a short-term bucket of the same metadata identifier starts inside its hour,
\* and is applied when none does.
C4_HourlyGuard ==
    (RollupCall("long_term") /\ last.id \in DOMAIN before.statistics) =>
        LET row == before.statistics[last.id]
        IN  IF ShortTermIn(before, row.metadata_id, row.start_ts) # {}
            THEN /\ ~last.result.success
                 /\ last.id \in DOMAIN statistics
                 /\ statistics[last.id] = row
            ELSE /\ last.result.success
                 /\ IF last.op = "update_statistic"
                    THEN /\ last.id \in DOMAIN statistics
                         /\ statistics[last.id] = Applied(row, last.args)
                    ELSE last.id \notin DOMAIN statistics

\* C4 witness: an edit of an hourly row with a short-term bucket in its hour was refused
C4_Witness ==
    /\ Called("update_statistic", "long_term")
    /\ last.id \in DOMAIN before.statistics
    /\ ShortTermIn(before, before.statistics[last.id].metadata_id,
                   before.statistics[last.id].start_ts) # {}
    /\ GuardRejected
    /\ statistics = before.statistics

\* an edit of an hourly row with no short-term bucket of its metadata identifier in its
\* hour (another statistic's bucket may start there) was applied
C4_AppliedReached ==
    /\ Called("update_statistic", "long_term")
    /\ last.id \in DOMAIN before.statistics
    /\ ShortTermIn(before, before.statistics[last.id].metadata_id,
                   before.statistics[last.id].start_ts) = {}
    /\ statistics[last.id] # before.statistics[last.id]

-----------------------------------------------------------------------------
(* C5 *)

\* C5: when edit-sample, delete-sample, edit-rollup or delete-rollup ends in guard
\* rejection or not-found, the committed store is the store it found.
C5_FailureLeavesStore ==
    (/\ last.op \in {"update_record", "delete_record", "update_statistic", "delete_statistic"}
     /\ (GuardRejected \/ NotFound))
    => Store(DB) = Store(before)

\* C5 witness: a delete-sample of an absent sample ended in not-found, nothing changed
C5_Witness ==
    /\ Called("delete_record", "state")
    /\ last.id \notin DOMAIN before.states
    /\ NotFound
    /\ Store(DB) = Store(before)

-----------------------------------------------------------------------------
(* C6, C7, C8 *)

\* the 5-minute and the hourly bucket start containing a timestamp
P5(t) == t - (t % 300)
PH(t) == t - (t % 3600)

\* the bucket starts the last call invoked a short-term / an hourly recompute for
ShortTermRecomputed == {last.calls[k].start_ts : k \in {j \in 1..Len(last.calls) :
                                                        last.calls[j].kind = "short_term"}}
HourlyRecomputed == {last.calls[k].start_ts : k \in {j \in 1..Len(last.calls) :
                                                     last.calls[j].kind = "long_term"}}

\* the last call was a successful edit-sample, and the sample's updated_at before / after
Edited == Called("update_record", "state") /\ last.result.success
OldTs == before.states[last.id].last_updated_ts
NewTs == states[last.id].last_updated_ts
Moved == Edited /\ OldTs # NewTs

\* the edited sample's entity has a row in the statistic dictionary
HasStatisticMeta ==
    \E m \in statistics_meta : m.statistic_id \in EntityOfState(DB, last.id)

\* C6 as claimed: an edit-sample that changes updated_at invokes the short-term
\* recompute for exactly the 5-minute buckets of the prior and the new updated_at and
\* the hourly recompute for exactly the hours of these two.
C6_RecomputesOldAndNew ==
    Moved => /\ ShortTermRecomputed = {P5(OldTs), P5(NewTs)}
             /\ HourlyRecomputed = {PH(P5(OldTs)), PH(P5(NewTs))}

\* C6 as amended: ... when the sample's entity has a statistic-dictionary row; when it
\* has none, no recompute is invoked.
C6_RecomputesOldAndNewOfStatistic ==
    Moved => IF HasStatisticMeta
             THEN /\ ShortTermRecomputed = {P5(OldTs), P5(NewTs)}
                  /\ HourlyRecomputed = {PH(P5(OldTs)), PH(P5(NewTs))}
             ELSE last.calls = << >>

\* C6 witness: an edit moved a sample into another 5-minute bucket, both were recomputed
C6_Witness ==
    /\ Moved
    /\ P5(OldTs) # P5(NewTs)
    /\ ShortTermRecomputed = {P5(OldTs), P5(NewTs)}

\* C7 as claimed: an edit-sample that moves updated_at makes four recompute calls when
\* the two positions lie in different hours and two when they lie in the same hour.
C7_FourOrTwoCalls ==
    Moved => Len(last.calls) = IF PH(OldTs) # PH(NewTs) THEN 4 ELSE 2

\* C7 as amended: for a sample whose entity has a statistic-dictionary row, four calls
\* when the positions lie in different hours, three (two short-term, one hourly) when
\* they lie in the same hour but in different 5-minute buckets, two when they lie in
\* the same 5-minute bucket; none when the entity has no statistic-dictionary row.
C7_FourThreeOrTwoCalls ==
    Moved => Len(last.calls) =
                IF ~HasStatisticMeta THEN 0
                ELSE IF PH(OldTs) # PH(NewTs) THEN 4
                ELSE IF P5(OldTs) # P5(NewTs) THEN 3
                ELSE 2

\* C7 witness: a move between two hours made four recompute calls
C7_Witness == Moved /\ PH(OldTs) # PH(NewTs) /\ Len(last.calls) = 4

\* C8: within one cascade every short-term recompute comes before the hourly recompute
\* of the hour that contains its bucket.
C8_ShortTermBeforeHourly ==
    last.cascade =>
        \A i, j \in 1..Len(last.calls) :
            (/\ last.calls[i].kind = "short_term"
             /\ last.calls[j].kind = "long_term"
             /\ PH(last.calls[i].start_ts) = last.calls[j].start_ts) => i < j

\* C8 witness: a cascade over two 5-minute buckets of two hours
C8_Witness ==
    /\ last.cascade
    /\ Cardinality(ShortTermRecomputed) = 2
    /\ Cardinality(HourlyRecomputed) = 2

-----------------------------------------------------------------------------
(* C9 *)

\* C9: after create-sample with updated_at = t the short-term bucket containing t and
\* then the hourly bucket containing t have been recomputed, where those rows exist.
C9_CreateRecomputes ==
    (Called("create_record", "state") /\ last.result.success) =>
        \A m \in {x \in statistics_meta : x.statistic_id \in EntityOfState(DB, last.id)} :
            /\ (\E r \in DOMAIN statistics_short_term :
                    /\ statistics_short_term[r].metadata_id = m.id
                    /\ statistics_short_term[r].start_ts = P5(NewTs))
               => P5(NewTs) \in ShortTermRecomputed
            /\ (\E r \in DOMAIN statistics :
                    /\ statistics[r].metadata_id = m.id
                    /\ statistics[r].start_ts = PH(NewTs))
               => PH(NewTs) \in HourlyRecomputed

-----------------------------------------------------------------------------
(* C10 *)

\* the columns of the sample the last edit-sample changed
ChangedColumns ==
    {f \in {"state", "attributes", "last_changed_ts", "last_updated_ts"} :
        before.states[last.id][f] # states[last.id][f]}

\* C10 as claimed: edit-sample runs the cascade whenever the request changes the value,
\* changed_at or updated_at, and does not when only the attribute payload is changed.
C10_CascadeOnValueOrTimestamps ==
    Edited =>
        /\ (ChangedColumns \cap {"state", "last_changed_ts", "last_updated_ts"} # {}
            => last.cascade)
        /\ (Supplied(last.args) = {"attributes"} => ~last.cascade)

\* C10 as amended: edit-sample runs the cascade exactly when the request supplies a
\* value or an updated_at; a request that supplies only changed_at and / or the
\* attribute payload does not run it.
C10_CascadeOnValueOrUpdatedAt ==
    Edited => (last.cascade <=> Supplied(last.args) \cap {"state", "last_updated"} # {})

\* C10 witness: an edit changed changed_at alone and ran no cascade
C10_Witness ==
    /\ Edited
    /\ ChangedColumns = {"last_changed_ts"}
    /\ ~last.cascade

-----------------------------------------------------------------------------
(* C11, C12 *)

\* a recalculation of the last call raised
CascadeRaised == \E k \in 1..Len(last.calls) : last.calls[k].kind = "raised"

\* a sample row after the fields an edit request supplies were applied to it
EditedSample(row, req) ==
    [row EXCEPT !.state = IF req.state # None THEN req.state[1] ELSE @,
                !.attributes = IF req.attributes # None
                               THEN json_dumps(req.attributes[1]) ELSE @,
                !.last_changed_ts = IF req.last_changed # None
                                    THEN req.last_changed[1].epoch ELSE @,
                !.last_updated_ts = IF req.last_updated # None
                                    THEN req.last_updated[1].epoch ELSE @]

\* C11: when a recompute step of an edit-sample cascade fails, the sample's field
\* changes are committed and the call returns a success result.
C11_SampleEditSurvivesCascadeFailure ==
    (Called("update_record", "state") /\ CascadeRaised) =>
        /\ last.result.success
        /\ last.id \in DOMAIN states
        /\ states[last.id] = EditedSample(before.states[last.id], last.args)

\* C11 witness: the second recompute step of an edit-sample cascade failed, and the
\* sample carries its new updated_at
C11_Witness ==
    /\ Called("update_record", "state")
    /\ CascadeRaised
    /\ Len(last.calls) >= 2
    /\ states[last.id].last_updated_ts # before.states[last.id].last_updated_ts
    /\ last.result.success

\* C12: the result of a mutation whose primary change committed and whose cascade
\* recompute failed differs from the plain success result of a mutation whose cascade
\* fully succeeded.
C12_CascadeFailureDistinguishable ==
    (CascadeRaised /\ Store(DB) # Store(before)) => last.result # Success

-----------------------------------------------------------------------------
(* C13, C14, C15 *)

\* the last call was a delete-sample of a sample that existed
Deleted == Called("delete_record", "state") /\ last.id \in DOMAIN before.states

\* the samples whose previous_sample_id was the sample the last call was given
Referrers == {i \in DOMAIN before.states : before.states[i].old_state_id = Some(last.id)}

\* C13: delete-sample of an existing sample returns success, removes the sample and
\* leaves every sample that referred to it with an absent previous_sample_id.
C13_DeleteClearsReferences ==
    Deleted =>
        /\ last.result.success
        /\ last.id \notin DOMAIN states
        /\ \A i \in Referrers : i \in DOMAIN states /\ states[i].old_state_id = None

\* C13 witness: a sample that another sample referred to was deleted
C13_Witness ==
    /\ Deleted
    /\ last.result.success
    /\ Referrers # {}
    /\ \A i \in Referrers : states[i].old_state_id = None

\* C14: every sample's previous_sample_id is absent or the identifier of a sample that
\* exists, in every state create-sample, edit-sample and delete-sample reach
\* (specification SpecSamples).
C14_NoDanglingReference ==
    \A i \in DOMAIN states :
        states[i].old_state_id # None => states[i].old_state_id[1] \in DOMAIN states

\* C14 witness: two samples of a chain of references have been deleted and a sample
\* created, and a reference is still present
C14_Witness ==
    /\ Cardinality(DOMAIN states \cap 1..3) = 1
    /\ Cardinality(DOMAIN states) = 2
    /\ \A i \in DOMAIN states : states[i].old_state_id = None

\* C15 as claimed: delete-sample invokes no recompute and leaves every short-term and
\* hourly bucket row as it was, a bucket whose last-value-sample reference is the
\* deleted sample included.
C15_DeleteLeavesRollups ==
    (Deleted /\ last.result.success) =>
        /\ last.calls = << >>
        /\ statistics_short_term = before.statistics_short_term
        /\ statistics = before.statistics

\* C15 as amended: delete-sample invokes no recompute and leaves every hourly row as
\* it was; it removes the short-term rows whose last-value-sample reference is the
\* deleted sample and leaves every other short-term row as it was.
C15_DeleteRemovesReferringBuckets ==
    (Deleted /\ last.result.success) =>
        /\ last.calls = << >>
        /\ statistics = before.statistics
        /\ DOMAIN statistics_short_term =
              {r \in DOMAIN before.statistics_short_term :
                  before.statistics_short_term[r].state_id # Some(last.id)}
        /\ \A r \in DOMAIN statistics_short_term :
              statistics_short_term[r] = before.statistics_short_term[r]

\* C15 witness: a delete-sample removed the bucket that referred to the sample and
\* left another bucket, which refers to another sample, in place
C15_Witness ==
    /\ Deleted
    /\ last.result.success
    /\ \E r \in DOMAIN before.statistics_short_term : r \notin DOMAIN statistics_short_term
    /\ \E r \in DOMAIN statistics_short_term : statistics_short_term[r].state_id # None

-----------------------------------------------------------------------------
(* C16 .. C20: _recalculate_short_term_stat, under SpecRecalculate *)

\* the last call was a recompute of the short-term bucket of sensor.a at last.id
Recalculated == Called("_recalculate_short_term_stat", "short_term")

\* the bucket rows of sensor.a at the start the last call was given, before the call
BucketBefore ==
    {r \in DOMAIN before.statistics_short_term :
        /\ before.statistics_short_term[r].metadata_id = 2
        /\ before.statistics_short_term[r].start_ts = last.id}

\* the numeric samples of sensor.a in the window of the last call
NumericInWindow == NumericSamplesIn(before, 2, last.id)

\* C16: recomputeShortTerm on an existing bucket whose window holds a numeric sample
\* of the entity sets mean, min and max to those of exactly the numeric values of the
\* entity's samples in the window.
C16_MeanMinMaxOfWindow ==
    (Recalculated /\ NumericInWindow # {}) =>
        \A r \in BucketBefore :
            /\ r \in DOMAIN statistics_short_term
            /\ IsAggregateOf(before, statistics_short_term[r], NumericInWindow)

\* C16 witness: the window holds the values 10, 20, 30 and the bucket has mean 20,
\* min 10, max 30
C16_Witness ==
    /\ Recalculated
    /\ BucketBefore # {}
    /\ {states[i].state : i \in NumericInWindow} = {"10", "20", "30"}
    /\ Cardinality(NumericInWindow) = 3
    /\ \A r \in BucketBefore :
          /\ statistics_short_term[r].mean = Some(Flt(20))
          /\ statistics_short_term[r].min = Some(Flt(10))
          /\ statistics_short_term[r].max = Some(Flt(30))

\* the chronologically last numeric sample of the window, equal timestamps resolved in
\* favour of the highest identifier
LastInWindow ==
    CHOOSE i \in NumericInWindow :
        \A j \in NumericInWindow :
            \/ states[j].last_updated_ts < states[i].last_updated_ts
            \/ states[j].last_updated_ts = states[i].last_updated_ts /\ j <= i

\* C17: after recomputeShortTerm on a window with a numeric sample the bucket's
\* last-value is the value of the chronologically last sample of the window, the
\* highest identifier among equal timestamps, and its last-value-sample reference is
\* that sample's identifier.
C17_LastValueOfLatestSample ==
    (Recalculated /\ NumericInWindow # {}) =>
        \A r \in BucketBefore :
            /\ statistics_short_term[r].state = float(states[LastInWindow].state)
            /\ statistics_short_term[r].state_id = Some(LastInWindow)

\* C18: recomputeShortTerm on an existing bucket whose window holds no numeric sample
\* leaves mean, min, max, last-value and the last-value-sample reference unchanged.
C18_NoNumericLeavesRow ==
    (Recalculated /\ NumericInWindow = {}) =>
        \A r \in BucketBefore :
            /\ r \in DOMAIN statistics_short_term
            /\ statistics_short_term[r] = before.statistics_short_term[r]

\* C18 witness: the window holds a non-numeric sample of the entity and no numeric
\* one, and the bucket row is the row the call found
C18_Witness ==
    /\ Recalculated
    /\ NumericInWindow = {}
    /\ RawSamplesIn(before, 2, last.id) # {}
    /\ BucketBefore # {}
    /\ statistics_short_term = before.statistics_short_term

\* C19: a recomputeShortTerm that follows a recomputeShortTerm of the same bucket, no
\* sample changed in between, leaves the bucket row as the first call left it.
C19_RecalculateTwice ==
    [][(/\ Recalculated
        /\ last'.op = last.op
        /\ last'.id = last.id
        /\ states' = states)
       => statistics_short_term' = statistics_short_term]_vars

\* C20: recomputeShortTerm returns true exactly when a bucket row exists for the
\* metadata identifier and start; when none exists it creates no row and changes
\* nothing in the store.
C20_TrueIffRowExists ==
    Recalculated =>
        /\ last.result = (BucketBefore # {})
        /\ BucketBefore = {} => Store(DB) = Store(before)

\* C20 witness: no bucket row exists, the window holds a numeric sample, the call
\* returned false and the store is as it was
C20_Witness ==
    /\ Recalculated
    /\ BucketBefore = {}
    /\ NumericInWindow # {}
    /\ last.result = FALSE
    /\ Store(DB) = Store(before)

-----------------------------------------------------------------------------
(* C21, C22, C23: _recalculate_long_term_stat, under SpecRecalculateHourly *)

\* the last call was a recompute of the hourly bucket of statistic 2 at last.id
Rolled == Called("_recalculate_long_term_stat", "long_term")

\* the hourly rows of statistic 2 at the start the last call was given, before the call
HourlyBefore ==
    {h \in DOMAIN before.statistics :
        /\ before.statistics[h].metadata_id = 2
        /\ before.statistics[h].start_ts = last.id}

\* the short-term buckets of statistic 2 in the hour of the last call, and those of
\* them whose column f is present
Window == ShortTermIn(before, 2, last.id)
WindowWith(f) == {r \in Window : before.statistics_short_term[r][f] # None}

\* the sum of the (whole-number) column f over the short-term rows rs
RECURSIVE ColumnTotal(_, _)
ColumnTotal(f, rs) ==
    IF rs = {} THEN 0
    ELSE LET r == CHOOSE x \in rs : TRUE
         IN  before.statistics_short_term[r][f][1].n + ColumnTotal(f, rs \ {r})

\* v is the least (sign = 1) or the greatest (sign = -1) value of column f in the window
ExtremeOf(v, f, sign) ==
    /\ \E r \in WindowWith(f) : v = before.statistics_short_term[r][f]
    /\ \A r \in WindowWith(f) :
          sign * v[1].n * before.statistics_short_term[r][f][1].d
              <= sign * before.statistics_short_term[r][f][1].n * v[1].d

\* C21: recomputeHourly on an existing hourly row sets mean to the mean of the means,
\* min to the minimum of the mins and max to the maximum of the maxes of exactly the
\* short-term buckets of the metadata identifier that start inside the hour, a bucket
\* whose field is absent being ignored for that field.
C21_HourlyMeanMinMax ==
    (Rolled /\ Window # {}) =>
        \A h \in HourlyBefore :
            LET row == statistics[h]
                old == before.statistics[h]
            IN  /\ IF WindowWith("mean") = {} THEN row.mean = old.mean
                   ELSE /\ row.mean # None
                        /\ row.mean[1].n * Cardinality(WindowWith("mean"))
                             = ColumnTotal("mean", WindowWith("mean")) * row.mean[1].d
                /\ IF WindowWith("min") = {} THEN row.min = old.min
                   ELSE ExtremeOf(row.min, "min", 1)
                /\ IF WindowWith("max") = {} THEN row.max = old.max
                   ELSE ExtremeOf(row.max, "max", -1)

\* C21 witness: the hour holds two buckets with means 10 and 40, one of them without
\* min and max, and a third bucket lies outside the hour; the hourly row has mean 25
\* and the min and max of the one bucket that has them
C21_Witness ==
    /\ Rolled
    /\ HourlyBefore # {}
    /\ Cardinality(DOMAIN statistics_short_term) = 3
    /\ Cardinality(WindowWith("mean")) = 2
    /\ Cardinality(WindowWith("min")) = 1
    /\ \A h \in HourlyBefore :
          /\ statistics[h].mean = Some(Flt(25))
          /\ \A r \in WindowWith("min") :
                /\ statistics[h].min = before.statistics_short_term[r].min
                /\ statistics[h].max = before.statistics_short_term[r].max

\* the bucket with the greatest start among the short-term rows rs
Latest(rs) ==
    CHOOSE r \in rs : \A q \in rs :
        before.statistics_short_term[q].start_ts <= before.statistics_short_term[r].start_ts

\* C22 as claimed: after recomputeHourly on a non-empty window the hourly bucket's
\* last-value is the state value of the short-term bucket with the greatest start
\* inside the hour.
C22_LastValueOfLatestBucket ==
    (Rolled /\ Window # {}) =>
        \A h \in HourlyBefore :
            statistics[h].state = before.statistics_short_term[Latest(Window)].state

\* C22 as amended: ... is the state value of the bucket with the greatest start among
\* the buckets inside the hour whose state value is present; when no bucket inside the
\* hour has a state value, the last-value is left as it was.
C22_LastValueOfLatestPresent ==
    (Rolled /\ Window # {}) =>
        \A h \in HourlyBefore :
            statistics[h].state =
                IF WindowWith("state") = {} THEN before.statistics[h].state
                ELSE before.statistics_short_term[Latest(WindowWith("state"))].state

\* C22 witness: the bucket with the greatest start has no state value, an earlier one
\* has, and the hourly last-value is the earlier one's
C22_Witness ==
    /\ Rolled
    /\ HourlyBefore # {}
    /\ WindowWith("state") # {}
    /\ before.statistics_short_term[Latest(Window)].state = None
    /\ \A h \in HourlyBefore :
          /\ statistics[h].state # before.statistics[h].state
          /\ statistics[h].state =
                before.statistics_short_term[Latest(WindowWith("state"))].state

\* C23 as claimed: recomputeHourly returns true exactly when an hourly row exists for
\* the metadata identifier and hour start, and changes nothing in the store when no
\* short-term bucket lies in the hour.
C23_TrueIffHourlyExists ==
    Rolled =>
        /\ last.result = (HourlyBefore # {})
        /\ Window = {} => Store(DB) = Store(before)

\* C23 as amended: recomputeHourly returns true exactly when a short-term bucket lies
\* in the hour and the hourly row exists; when it returns false it has changed
\* nothing in the store.
C23_TrueIffWindowAndHourly ==
    Rolled =>
        /\ last.result = (Window # {} /\ HourlyBefore # {})
        /\ ~last.result => Store(DB) = Store(before)

\* C23 witness: the hourly row exists, no short-term bucket of the statistic lies in
\* the hour (one of another statistic does), the call returned false, nothing changed
C23_Witness ==
    /\ Rolled
    /\ HourlyBefore # {}
    /\ Window = {}
    /\ statistics_short_term # << >>
    /\ last.result = FALSE
    /\ Store(DB) = Store(before)

-----------------------------------------------------------------------------
(* C24 .. C27: the rollup rows under every handler, specification SpecRollups *)

\* the last call was an edit or a delete of a short-term bucket row that was applied
ShortTermApplied ==
    /\ RollupCall("short_term")
    /\ last.result.success
    /\ last.id \in DOMAIN before.statistics_short_term

\* the metadata identifier of that row and the hour that contains its bucket start
\* (the start it has after an edit, the start it had before a delete)
AppliedMeta == before.statistics_short_term[last.id].metadata_id
AppliedHour ==
    PH(IF last.op = "update_statistic" THEN statistics_short_term[last.id].start_ts
       ELSE before.statistics_short_term[last.id].start_ts)

\* the short-term rows rs that have column f
Having(f, rs) == {r \in rs : statistics_short_term[r][f] # None}

RECURSIVE RatTotal(_, _)
RatTotal(f, rs) ==
    IF rs = {} THEN Flt(0)
    ELSE LET r == CHOOSE x \in rs : TRUE
         IN  RatAdd(statistics_short_term[r][f][1], RatTotal(f, rs \ {r}))

\* the hourly row is the aggregate of the short-term rows rs: the mean of the means,
\* the least min, the greatest max, the state of the row with the greatest start
IsRollupOf(row, rs) ==
    /\ Having("mean", rs) # {} =>
          row.mean = Some(RatDivInt(RatTotal("mean", Having("mean", rs)),
                                    Cardinality(Having("mean", rs))))
    /\ Having("min", rs) # {} =>
          /\ \E r \in Having("min", rs) : row.min = statistics_short_term[r].min
          /\ \A r \in Having("min", rs) : RatLeq(row.min[1], statistics_short_term[r].min[1])
    /\ Having("max", rs) # {} =>
          /\ \E r \in Having("max", rs) : row.max = statistics_short_term[r].max
          /\ \A r \in Having("max", rs) : RatLeq(statistics_short_term[r].max[1], row.max[1])
    /\ Having("state", rs) # {} =>
          \E r \in Having("state", rs) :
              /\ row.state = statistics_short_term[r].state
              /\ \A q \in Having("state", rs) :
                    statistics_short_term[q].start_ts <= statistics_short_term[r].start_ts

\* the hourly rows of the hour that contains the edited or deleted bucket
AppliedHourly ==
    {h \in DOMAIN statistics :
        /\ statistics[h].metadata_id = AppliedMeta
        /\ statistics[h].start_ts = AppliedHour}

\* C24: after an applied edit or delete of a short-term bucket row the hourly bucket
\* that contains the row's bucket start has been recomputed before the call returns:
\* where an hourly row exists and short-term buckets remain in its hour, the hourly row
\* of that hour (the one the lookup finds) is their aggregate.
C24_HourlyRecomputedAfterRollupEdit ==
    ShortTermApplied =>
        /\ \E k \in 1..Len(last.calls) :
              last.calls[k] = [kind |-> "long_term", start_ts |-> AppliedHour]
        /\ (AppliedHourly # {} /\ ShortTermIn(DB, AppliedMeta, AppliedHour) # {})
           => \E h \in AppliedHourly :
                 IsRollupOf(statistics[h], ShortTermIn(DB, AppliedMeta, AppliedHour))

\* C24 witness: a short-term bucket was deleted, another remains in its hour, and the
\* hourly row has changed to the aggregate of what remains
C24_Witness ==
    /\ ShortTermApplied
    /\ last.op = "delete_statistic"
    /\ ShortTermIn(DB, AppliedMeta, AppliedHour) # {}
    /\ \E h \in AppliedHourly :
          /\ statistics[h] # before.statistics[h]
          /\ IsRollupOf(statistics[h], ShortTermIn(DB, AppliedMeta, AppliedHour))

\* C25: every short-term bucket's start is a multiple of 300 seconds and every hourly
\* bucket's start a multiple of 3600 seconds, in every state the mutation entry
\* points reach from a store with aligned buckets.
C25_BucketsAligned ==
    /\ \A r \in DOMAIN statistics_short_term : statistics_short_term[r].start_ts % 300 = 0
    /\ \A h \in DOMAIN statistics : statistics[h].start_ts % 3600 = 0

\* C26: no two short-term bucket rows share a (metadata identifier, start), in every
\* state the mutation entry points reach from a store with unique bucket keys.
C26_UniqueBucketKeys ==
    \A r, q \in DOMAIN statistics_short_term :
        (/\ statistics_short_term[r].metadata_id = statistics_short_term[q].metadata_id
         /\ statistics_short_term[r].start_ts = statistics_short_term[q].start_ts)
        => r = q

\* C27: no call of a handler increases the number of short-term bucket rows or the
\* number of hourly bucket rows.
C27_NoBucketCreated ==
    [][/\ Cardinality(DOMAIN statistics_short_term') <= Cardinality(DOMAIN statistics_short_term)
       /\ Cardinality(DOMAIN statistics') <= Cardinality(DOMAIN statistics)]_vars

\* C27 witness: the cascade of an applied short-term edit asked for the recompute of
\* an hourly bucket that has no row, and no row was created
C27_Witness ==
    /\ ShortTermApplied
    /\ last.op = "update_statistic"
    /\ Len(last.calls) = 1
    /\ AppliedHourly = {}
    /\ Cardinality(DOMAIN statistics) = Cardinality(DOMAIN before.statistics)

-----------------------------------------------------------------------------
(* _add_periods alone, over every timestamp of a range around the epoch *)

MaxTimestamp == 7500

\* an empty store and a timestamp ts, kept in last.id
InitPeriods ==
    /\ states = << >>
    /\ states_meta = {}
    /\ statistics_meta = {}
    /\ statistics_short_term = << >>
    /\ statistics = << >>
    /\ next_state_id = 1
    /\ next_metadata_id = 1
    /\ ncalls = 0
    /\ before = DB
    /\ \E ts \in (0 - MaxTimestamp)..MaxTimestamp :
          last = [op |-> "init", kind |-> "", id |-> ts, args |-> ts,
                  result |-> [p5 |-> 0, ph |-> 0], cascade |-> FALSE, calls |-> << >>]
    /\ sessions = << >>

\* _add_periods(ts), and then _add_periods of one of the two starts it returned;
\* last.calls keeps the periods of ts
AddPeriods(of) ==
    /\ ncalls < 2
    /\ (of = "ts") = (last.op = "init")
    /\ LET ts == IF of = "ts" THEN last.id ELSE last.result[of]
       IN  last' = [op |-> "_add_periods", kind |-> of, id |-> last.id, args |-> ts,
                    result |-> _add_periods(ts), cascade |-> FALSE,
                    calls |-> IF of = "ts" THEN << >> ELSE <<last.result>>]
    /\ ncalls' = ncalls + 1
    /\ UNCHANGED <<tables, next_state_id, next_metadata_id, before, sessions>>

NextPeriods == \E of \in {"ts", "p5", "ph"} : AddPeriods(of)

SpecPeriods == InitPeriods /\ [][NextPeriods]_vars

\* C30: for every timestamp t of the range, negative ones included, the 5-minute start
\* s is a multiple of 300 with s <= t < s + 300 and the 5-minute start of s is s; the
\* hourly start h is a multiple of 3600 with h <= t < h + 3600 and the hourly start of
\* h is h; and the hour of t is the hour of t's 5-minute start.
C30_PeriodStarts ==
    last.op = "_add_periods" =>
        /\ last.kind = "ts" =>
              /\ last.result.p5 % 300 = 0
              /\ last.result.p5 <= last.args /\ last.args < last.result.p5 + 300
              /\ last.result.ph % 3600 = 0
              /\ last.result.ph <= last.args /\ last.args < last.result.ph + 3600
        /\ last.kind = "p5" =>
              /\ last.result.p5 = last.args
              /\ last.result.ph = last.calls[1].ph
        /\ last.kind = "ph" => last.result.ph = last.args

\* C30 witness: the periods of a negative timestamp that is no period start have been
\* derived, and derived again from its 5-minute start
C30_Witness ==
    /\ last.op = "_add_periods"
    /\ last.kind = "p5"
    /\ last.id < 0
    /\ last.id % 300 # 0
    /\ last.args < last.id

-----------------------------------------------------------------------------
(* _create_record_sync step by step: two calls, each in its own session, on a   *)
(* store whose StatesMeta.entity_id is unique.  A session reads the committed   *)
(* rows and its own; the INSERT of an entity_id that another session has         *)
(* inserted and not yet committed waits for that session's commit.              *)

Callers == {1, 2}

\* str(metadata_err) of the two exceptions session.flush() raises here
UniqueViolation == "IntegrityError: UNIQUE constraint failed: states_meta.entity_id"
OperationalError == "OperationalError: database error"

InitCreate ==
    /\ states = << >>
    /\ states_meta \in {{}, {[metadata_id |-> 1, entity_id |-> "sensor.b"]}}
    /\ statistics_meta = {}
    /\ statistics_short_term = << >>
    /\ statistics = << >>
    /\ next_state_id = 1
    /\ next_metadata_id = 2
    /\ ncalls = 0
    /\ before = DB
    /\ last = [op |-> "init", kind |-> "", id |-> 0, args |-> << >>,
               result |-> Success, cascade |-> FALSE, calls |-> << >>]
    /\ sessions \in [Callers -> [pc : {"query"}, entity_id : Entities, state : {"10", "on"},
                                  metadata : {None}, pending : {{}}, err : {None},
                                  inserts : {0}, requeries : {0},
                                  result : {None}, state_id : {None}]]

\* the StatesMeta rows of an entity among rows
MetadataOf(rows, entity_id) == {m \in rows : m.entity_id = entity_id}

\* line 1007: session.query(StatesMeta).filter(entity_id == entity_id).first()
QueryMetadata(p) ==
    /\ sessions[p].pc = "query"
    /\ LET found == MetadataOf(states_meta, sessions[p].entity_id)
       IN  sessions' = [sessions EXCEPT
                           ![p].metadata = IF found = {} THEN None
                                           ELSE Some(CHOOSE m \in found : TRUE),
                           ![p].pc = IF found = {} THEN "add" ELSE "verify"]
    /\ UNCHANGED <<tables, next_state_id, next_metadata_id, ncalls, before, last>>

\* lines 1012-1014: session.add(StatesMeta(entity_id=entity_id)); session.flush().
\* The INSERT raises when a committed row has the entity_id (line 1015 catches it)
AddMetadata(p) ==
    /\ sessions[p].pc = "add"
    /\ \A q \in Callers \ {p} : MetadataOf(sessions[q].pending, sessions[p].entity_id) = {}
    /\ LET created == [metadata_id |-> next_metadata_id, entity_id |-> sessions[p].entity_id]
           conflict == MetadataOf(states_meta, sessions[p].entity_id) # {}
       IN  /\ sessions' = [sessions EXCEPT
                               ![p].inserts = @ + 1,
                               ![p].pending = IF conflict THEN @ ELSE {created},
                               ![p].metadata = IF conflict THEN @ ELSE Some(created),
                               ![p].err = IF conflict THEN Some(UniqueViolation) ELSE @,
                               ![p].pc = IF conflict THEN "rollback" ELSE "verify"]
           /\ next_metadata_id' = IF conflict THEN next_metadata_id ELSE next_metadata_id + 1
    /\ UNCHANGED <<tables, next_state_id, ncalls, before, last>>

\* lines 1012-1015: the flush raises for a reason other than the entity_id
AddMetadataFails(p) ==
    /\ sessions[p].pc = "add"
    /\ sessions' = [sessions EXCEPT ![p].inserts = @ + 1,
                                    ![p].err = Some(OperationalError),
                                    ![p].pc = "rollback"]
    /\ UNCHANGED <<tables, next_state_id, next_metadata_id, ncalls, before, last>>

\* line 1018: session.rollback()
Rollback(p) ==
    /\ sessions[p].pc = "rollback"
    /\ sessions' = [sessions EXCEPT ![p].pending = {}, ![p].pc = "requery"]
    /\ UNCHANGED <<tables, next_state_id, next_metadata_id, ncalls, before, last>>

\* mutant: the exception of the flush is raised again whatever the second query finds
metadata_requeried_raises(found) == "raise"

\* mutant: the insert is tried again when the second query finds nothing
metadata_requeried_retries(found) == IF found = {} THEN "add" ELSE "verify"

\* lines 1020-1021: if metadata is None: raise
metadata_requeried(found) == IF found = {} THEN "raise" ELSE "verify"

\* lines 1019-1021: the second query; the raise leaves through the outer except
\* clause (lines 1053-1055), which returns the failure
RequeryMetadata(p) ==
    /\ sessions[p].pc = "requery"
    /\ LET found == MetadataOf(states_meta, sessions[p].entity_id)
           then == metadata_requeried(found)
       IN  sessions' = [sessions EXCEPT
                           ![p].requeries = @ + 1,
                           ![p].metadata = IF found = {} THEN None
                                           ELSE Some(CHOOSE m \in found : TRUE),
                           ![p].result = IF then = "raise"
                                         THEN Some(Failure(sessions[p].err[1])) ELSE @,
                           ![p].pc = IF then = "raise" THEN "done" ELSE then]
    /\ UNCHANGED <<tables, next_state_id, next_metadata_id, ncalls, before, last>>

\* lines 1023-1052: the States row with the metadata_id, session.add, session.commit
CreateState(p) ==
    /\ sessions[p].pc = "verify"
    /\ LET new_state ==
               [metadata_id |-> sessions[p].metadata[1].metadata_id,
                state |-> sessions[p].state,
                attributes |-> json_dumps({}),
                last_changed_ts |-> timestamp(datetime(0)),
                last_updated_ts |-> timestamp(datetime(0)),
                old_state_id |-> None]
       IN  /\ states' = [i \in DOMAIN states \cup {next_state_id} |->
                            IF i = next_state_id THEN new_state ELSE states[i]]
           /\ states_meta' = states_meta \cup sessions[p].pending
           /\ next_state_id' = next_state_id + 1
           /\ sessions' = [sessions EXCEPT ![p].pending = {},
                                           ![p].result = Some(Success),
                                           ![p].state_id = Some(next_state_id),
                                           ![p].pc = "done"]
    /\ UNCHANGED <<statistics_meta, statistics_short_term, statistics, next_metadata_id,
                   ncalls, before, last>>

CallerStep(p) ==
    \/ QueryMetadata(p)
    \/ AddMetadata(p)
    \/ Rollback(p)
    \/ RequeryMetadata(p)
    \/ CreateState(p)

NextCreateRace == \E p \in Callers : CallerStep(p)

SpecCreateRace == InitCreate /\ [][NextCreateRace]_vars

\* the same two calls on a store whose flush may also fail; every call that can take
\* a step takes it in the end
NextCreateFaulty == \E p \in Callers : CallerStep(p) \/ AddMetadataFails(p)

SpecCreateFaulty ==
    InitCreate /\ [][NextCreateFaulty]_vars
    /\ \A p \in Callers : WF_vars(CallerStep(p) \/ AddMetadataFails(p))

-----------------------------------------------------------------------------
(* Two update_record calls that run concurrently, each in its own session and each    *)
(* giving a new state to its own record.  A call is the steps of lines 734 to 743:    *)
(* session.commit() of the record, _update_statistics_after_state_change, which reads *)
(* the committed rows and assigns the recalculated values to the statistics rows of   *)
(* its session, and the session.commit() that writes those rows.  The handler takes   *)
(* no lock and reads no row for update.                                               *)

\* the new states the callers ask for
EditedStates == {"5", "30", "on"}

InitEditRace ==
    /\ states = (1 :> StateRow(1, "10", "{}", 0, 0, None)
                 @@ 2 :> StateRow(1, "20", "{}", 100, 100, Some(1))
                 @@ 3 :> StateRow(1, "on", "{}", 300, 300, Some(2)))
    /\ states_meta = {[metadata_id |-> 1, entity_id |-> "sensor.a"]}
    /\ statistics_meta = {[id |-> 2, statistic_id |-> "sensor.a"]}
    /\ statistics_short_term = (1 :> ShortTermRow(2, 0, 15, 10, 20, 20, Some(2))
                                @@ 2 :> ShortTermRow(2, 300, 5, 5, 5, 5, None))
    /\ statistics = (1 :> LongTermRow(2, 0, 10, 5, 20, 5))
    /\ next_state_id = 4
    /\ next_metadata_id = 2
    /\ ncalls = 0
    /\ before = DB
    /\ last = [op |-> "init", kind |-> "", id |-> 0, args |-> << >>,
               result |-> Success, cascade |-> FALSE, calls |-> << >>]
    /\ \E s1, s2 \in EditedStates :
          sessions = [c \in Callers |->
                        [pc |-> "commit_sample", state_id |-> c,
                         new_state |-> IF c = 1 THEN s1 ELSE s2,
                         loaded |-> None, computed |-> None, result |-> None]]

\* lines 716-717 and 734: state.state = new_state; session.commit()
CommitSample(p) ==
    /\ sessions[p].pc = "commit_sample"
    /\ states' = [states EXCEPT ![sessions[p].state_id].state = sessions[p].new_state]
    /\ sessions' = [sessions EXCEPT ![p].pc = "recompute"]
    /\ UNCHANGED <<states_meta, statistics_meta, statistics_short_term, statistics,
                   next_state_id, next_metadata_id, ncalls, before, last>>

\* lines 740-742: the recalculations read the committed rows and assign to the rows of
\* the session; nothing is written to the store
RecomputeInSession(p) ==
    /\ sessions[p].pc = "recompute"
    /\ \E d \in _update_statistics_after_state_change(
                    DB, states[sessions[p].state_id],
                    Some(states[sessions[p].state_id].last_updated_ts), None) :
          sessions' = [sessions EXCEPT
                          ![p].pc = "commit_rollups",
                          ![p].loaded = Some([short_term |-> statistics_short_term,
                                              long_term |-> statistics]),
                          ![p].computed = Some([short_term |-> d.statistics_short_term,
                                                long_term |-> d.statistics])]
    /\ UNCHANGED <<states, states_meta, statistics_meta, statistics_short_term, statistics,
                   next_state_id, next_metadata_id, ncalls, before, last>>

\* the UPDATE of a commit: the columns the session changed since it loaded the row
Written(loaded, computed, current) ==
    [r \in DOMAIN current |->
        IF r \in DOMAIN loaded /\ r \in DOMAIN computed
        THEN [f \in DOMAIN current[r] |->
                IF computed[r][f] # loaded[r][f] THEN computed[r][f] ELSE current[r][f]]
        ELSE current[r]]

\* lines 743 and 750: session.commit() of the statistics rows; return success
CommitRollups(p) ==
    /\ sessions[p].pc = "commit_rollups"
    /\ statistics_short_term' = Written(sessions[p].loaded[1].short_term,
                                        sessions[p].computed[1].short_term,
                                        statistics_short_term)
    /\ statistics' = Written(sessions[p].loaded[1].long_term,
                             sessions[p].computed[1].long_term, statistics)
    /\ sessions' = [sessions EXCEPT ![p].pc = "done", ![p].result = Some(Success)]
    /\ UNCHANGED <<states, states_meta, statistics_meta,
                   next_state_id, next_metadata_id, ncalls, before, last>>

EditStep(p) ==
    \/ CommitSample(p)
    \/ RecomputeInSession(p)
    \/ CommitRollups(p)

NextEditRace == \E p \in Callers : EditStep(p)

SpecEditRace == InitEditRace /\ [][NextEditRace]_vars

-----------------------------------------------------------------------------
(* C28, C29: the StatesMeta row of a new entity *)

AllDone == \A p \in Callers : sessions[p].pc = "done"

\* both calls are for one entity that had no StatesMeta row when they began
SameUnknownEntity ==
    /\ sessions[1].entity_id = sessions[2].entity_id
    /\ MetadataOf(before.states_meta, sessions[1].entity_id) = {}

\* C28: when two create_record calls for the same entity without a StatesMeta row run
\* concurrently on a store that keeps entity_id unique, then after both have ended
\* exactly one StatesMeta row of the entity exists, both calls have succeeded, the two
\* States rows carry the same metadata_id, and neither result carries the conflict.
C28_ConcurrentCreateOneMetadata ==
    (AllDone /\ SameUnknownEntity) =>
        /\ Cardinality(MetadataOf(states_meta, sessions[1].entity_id)) = 1
        /\ \A p \in Callers : sessions[p].result = Some(Success)
        /\ \A p \in Callers : sessions[p].state_id # None
        /\ \A p \in Callers : sessions[p].state_id[1] \in DOMAIN states
        /\ states[sessions[1].state_id[1]].metadata_id
             = states[sessions[2].state_id[1]].metadata_id
        /\ \A m \in MetadataOf(states_meta, sessions[1].entity_id) :
              states[sessions[1].state_id[1]].metadata_id = m.metadata_id

\* C28 witness: both calls found no row at first, one of them hit the uniqueness
\* conflict at its insert, and both have ended
C28_Witness ==
    /\ AllDone
    /\ SameUnknownEntity
    /\ \A p \in Callers : sessions[p].inserts = 1
    /\ \E p \in Callers : sessions[p].err = Some(UniqueViolation) /\ sessions[p].requeries = 1
    /\ \A p \in Callers : sessions[p].result = Some(Success)

\* C29: the get-or-create of the StatesMeta row makes at most one insert attempt and,
\* after a failed insert, at most one second query; when the second query finds no
\* row the call ends with a failure result; and every call ends.
C29_GetOrCreateBounded ==
    /\ [](\A p \in Callers :
            /\ sessions[p].inserts <= 1
            /\ sessions[p].requeries <= sessions[p].inserts
            /\ (sessions[p].requeries = 1 /\ sessions[p].metadata = None)
               => /\ sessions[p].pc = "done"
                  /\ sessions[p].result = Some(Failure(sessions[p].err[1])))
    /\ <>AllDone

\* C29 witness: an insert failed, the second query found nothing, and the call has
\* ended with the failure
C29_Witness ==
    \E p \in Callers :
        /\ sessions[p].pc = "done"
        /\ sessions[p].inserts = 1
        /\ sessions[p].requeries = 1
        /\ sessions[p].metadata = None
        /\ sessions[p].result = Some(Failure(OperationalError))

-----------------------------------------------------------------------------
(* C31 *)

\* the target of the last call did not exist when the call was made
TargetAbsent ==
    \/ last.op \in {"update_record", "delete_record"} /\ last.id \notin DOMAIN before.states
    \/ RollupCall("short_term") /\ last.id \notin DOMAIN before.statistics_short_term
    \/ RollupCall("long_term") /\ last.id \notin DOMAIN before.statistics

\* the target of the last call was a rollup row with source data in its window
TargetGuarded ==
    \/ /\ RollupCall("short_term")
       /\ last.id \in DOMAIN before.statistics_short_term
       /\ RawSamplesIn(before, before.statistics_short_term[last.id].metadata_id,
                       before.statistics_short_term[last.id].start_ts) # {}
    \/ /\ RollupCall("long_term")
       /\ last.id \in DOMAIN before.statistics
       /\ ShortTermIn(before, before.statistics[last.id].metadata_id,
                      before.statistics[last.id].start_ts) # {}

\* the last call returned a failure dict {"success": False, "error": text}
ReturnedFailure ==
    /\ DOMAIN last.result = {"success", "error"}
    /\ last.result.success = FALSE
    /\ last.result.error # ""

\* C31: a call of edit-sample, delete-sample, edit-rollup or delete-rollup on an absent
\* target, or of edit-rollup or delete-rollup on a rollup row with source data in its
\* window, returns a failure result to its caller; it does not raise.
C31_FailureIsReturned == (TargetAbsent \/ TargetGuarded) => ReturnedFailure

\* C31 witness: a delete of a guarded hourly row returned the failure result
C31_Witness ==
    /\ Called("delete_statistic", "long_term")
    /\ TargetGuarded
    /\ ReturnedFailure
    /\ last.result.error = CannotDeleteLongTerm

-----------------------------------------------------------------------------
(* C32 *)

\* the column of the sample that carries a request field
ColumnOf(field) ==
    CASE field = "state" -> "state"
      [] field = "attributes" -> "attributes"
      [] field = "last_changed" -> "last_changed_ts"
      [] field = "last_updated" -> "last_updated_ts"

\* C32: a successful edit-sample leaves every column of the sample whose field the
\* request does not supply as it was, never changes the sample's identifier, metadata
\* identifier or reference to the previous sample, and changes no other sample row.
C32_EditChangesSuppliedFieldsOnly ==
    Edited =>
        /\ DOMAIN states = DOMAIN before.states
        /\ \A f \in {"state", "attributes", "last_changed", "last_updated"} \ Supplied(last.args) :
              states[last.id][ColumnOf(f)] = before.states[last.id][ColumnOf(f)]
        /\ states[last.id].metadata_id = before.states[last.id].metadata_id
        /\ states[last.id].old_state_id = before.states[last.id].old_state_id
        /\ \A i \in DOMAIN states \ {last.id} : states[i] = before.states[i]

\* C32 witness: an edit that supplied updated_at alone changed that column of the
\* sample and nothing else of it
C32_Witness ==
    /\ Edited
    /\ Supplied(last.args) = {"last_updated"}
    /\ ChangedColumns = {"last_updated_ts"}
    /\ Cardinality(DOMAIN states) > 1

-----------------------------------------------------------------------------
(* C33 *)

\* C33: every hourly bucket whose hour holds at least one short-term bucket of its
\* metadata identifier has the mean of their means, the least of their mins and the
\* greatest of their maxes; claimed of every state that create-sample, edit-sample,
\* delete-sample and guard-passed edits and deletes of short-term rows reach from a
\* store in which it holds.
C33_HourlyMatchesShortTerm ==
    \A h \in DOMAIN statistics :
        LET rs == ShortTermIn(DB, statistics[h].metadata_id, statistics[h].start_ts)
        IN  /\ Having("mean", rs) # {} =>
                  statistics[h].mean = Some(RatDivInt(RatTotal("mean", Having("mean", rs)),
                                                      Cardinality(Having("mean", rs))))
            /\ Having("min", rs) # {} =>
                  /\ \E r \in Having("min", rs) :
                        statistics[h].min = statistics_short_term[r].min
                  /\ \A r \in Having("min", rs) :
                        RatLeq(statistics[h].min[1], statistics_short_term[r].min[1])
            /\ Having("max", rs) # {} =>
                  /\ \E r \in Having("max", rs) :
                        statistics[h].max = statistics_short_term[r].max
                  /\ \A r \in Having("max", rs) :
                        RatLeq(statistics_short_term[r].max[1], statistics[h].max[1])

-----------------------------------------------------------------------------
(* C35, C36: an edit that moves a short-term row, specification SpecRollups *)

\* the last call was an applied edit of a short-term row, and the row before and after
ShortTermEdited ==
    /\ Called("update_statistic", "short_term")
    /\ last.result.success
    /\ last.id \in DOMAIN before.statistics_short_term
RowBefore == before.statistics_short_term[last.id]
RowAfter == statistics_short_term[last.id]

\* C35: after a successful edit of a short-term bucket row, one that changes the row's
\* start included, no raw sample of the bucket's entity has updated_at in the window
\* of the row as it is stored.
C35_EditedRowHasNoSamples ==
    ShortTermEdited => RawSamplesIn(DB, RowAfter.metadata_id, RowAfter.start_ts) = {}

\* an edit moved a short-term row onto a free period start that holds a raw sample
C35_MovedOntoSamples ==
    /\ ShortTermEdited
    /\ RowAfter.start_ts % 300 = 0
    /\ C26_UniqueBucketKeys
    /\ RawSamplesIn(DB, RowAfter.metadata_id, RowAfter.start_ts) # {}

\* C36: when a successful edit of a short-term bucket row moves its start from hour A
\* to another hour B, the hourly recompute is invoked for A and for B.
C36_BothHoursRecomputed ==
    (ShortTermEdited /\ PH(RowBefore.start_ts) # PH(RowAfter.start_ts)) =>
        {PH(RowBefore.start_ts), PH(RowAfter.start_ts)} \subseteq HourlyRecomputed


\* an edit moved a short-term row to another hour and the hourly row of the hour it
\* left no longer carries the mean of the short-term rows that remain there
C36_OldHourStale ==
    /\ ShortTermEdited
    /\ PH(RowBefore.start_ts) # PH(RowAfter.start_ts)
    /\ \E h \in DOMAIN statistics :
          /\ statistics[h].metadata_id = RowBefore.metadata_id
          /\ statistics[h].start_ts = PH(RowBefore.start_ts)
          /\ ShortTermIn(DB, RowBefore.metadata_id, PH(RowBefore.start_ts)) # {}
          /\ ~IsRollupOf(statistics[h],
                         ShortTermIn(DB, RowBefore.metadata_id, PH(RowBefore.start_ts)))
          /\ IsRollupOf(before.statistics[h],
                        ShortTermIn(before, RowBefore.metadata_id, PH(RowBefore.start_ts)))

-----------------------------------------------------------------------------
(* C37: a guard whose check fails, specification SpecGuardRaising *)

\* the count query of the guard of the last call raised
CheckRaised == \E k \in 1..Len(last.calls) : last.calls[k].kind = "check_raised"

\* C37: an edit or a delete of a rollup row whose source-data check failed with an
\* error leaves the rollup row unchanged.
C37_FailedCheckLeavesRow ==
    (CheckRaised /\ RollupCall("short_term")
        => /\ last.id \in DOMAIN statistics_short_term
           /\ statistics_short_term[last.id] = before.statistics_short_term[last.id])
    /\ (CheckRaised /\ RollupCall("long_term")
        => /\ last.id \in DOMAIN statistics
           /\ statistics[last.id] = before.statistics[last.id])

\* the check of an edit of a short-term row with a raw sample in its window failed and
\* the row was changed
C37_GuardedRowEdited ==
    /\ CheckRaised
    /\ Called("update_statistic", "short_term")
    /\ TargetGuarded
    /\ last.result.success
    /\ statistics_short_term[last.id] # before.statistics_short_term[last.id]

-----------------------------------------------------------------------------
(* C38: the flag of the listing and the guards, specification SpecListing *)

\* the results an edit and a delete of the listed row id can have on the store
EditOutcomes(id, statistic_type) ==
    {o.result : o \in UNION {_update_statistic_sync(DB, id, req.mean, req.min, req.max,
                                                    req.sum, req.state, req.start,
                                                    statistic_type) :
                                req \in StatisticRequests}}
DeleteOutcomes(id, statistic_type) ==
    {o.result : o \in _delete_statistic_sync(DB, id, statistic_type)}

\* C38: for every row the statistics listing reports, an edit of the row on the store
\* as listed is refused by the guard exactly when the listing reported has_source_data
\* true for it, and so is a delete.
C38_FlagAgreesWithGuard ==
    last.op = "get_statistics" =>
        \A k \in 1..Len(last.result.records) :
            LET rec == last.result.records[k]
                edit_refused == IF last.kind = "short_term" THEN {Failure(CannotEditShortTerm)}
                                ELSE {Failure(CannotEditLongTerm)}
                delete_refused == IF last.kind = "short_term"
                                  THEN {Failure(CannotDeleteShortTerm)}
                                  ELSE {Failure(CannotDeleteLongTerm)}
            IN  /\ rec.has_source_data <=> EditOutcomes(rec.id, last.kind) = edit_refused
                /\ ~rec.has_source_data <=> EditOutcomes(rec.id, last.kind) = {Success}
                /\ rec.has_source_data <=> DeleteOutcomes(rec.id, last.kind) = delete_refused
                /\ ~rec.has_source_data <=> DeleteOutcomes(rec.id, last.kind) = {Success}

\* C38 witness: a listing of hourly rows reported one row with the flag and one
\* without it
C38_Witness ==
    /\ Called("get_statistics", "long_term")
    /\ \E j, k \in 1..Len(last.result.records) :
          /\ last.result.records[j].has_source_data
          /\ ~last.result.records[k].has_source_data
          /\ EditOutcomes(last.result.records[j].id, "long_term")
                = {Failure(CannotEditLongTerm)}
          /\ EditOutcomes(last.result.records[k].id, "long_term") = {Success}

-----------------------------------------------------------------------------
(* C39: the rollup changes of one cascade, specification SpecRaising *)

\* the statistics of the entity of the sample the last call edited
StatisticsOfEdited ==
    {m.id : m \in {x \in statistics_meta : x.statistic_id \in EntityOfState(DB, last.id)}}

\* what the same edit leaves when no recalculation raises
FullCascades ==
    {o.db : o \in _update_record_sync(before, last.id, last.args.state, last.args.attributes,
                                      last.args.last_changed, last.args.last_updated)}

\* C39: when a recompute step of an edit-sample cascade fails, no short-term and no
\* hourly bucket row differs from what it was before the call; when none fails, every
\* bucket the cascade recomputed carries its new aggregate.
C39_CascadeAllOrNothing ==
    (Called("update_record", "state") /\ last.result.success) =>
        IF CascadeRaised
        THEN /\ statistics_short_term = before.statistics_short_term
             /\ statistics = before.statistics
        ELSE /\ \A r \in DOMAIN statistics_short_term :
                   (/\ statistics_short_term[r].metadata_id \in StatisticsOfEdited
                    /\ statistics_short_term[r].start_ts \in ShortTermRecomputed
                    /\ NumericSamplesIn(DB, statistics_short_term[r].metadata_id,
                                        statistics_short_term[r].start_ts) # {})
                   => IsAggregateOf(DB, statistics_short_term[r],
                                    NumericSamplesIn(DB, statistics_short_term[r].metadata_id,
                                                     statistics_short_term[r].start_ts))
             /\ \A h \in DOMAIN statistics :
                   (/\ statistics[h].metadata_id \in StatisticsOfEdited
                    /\ statistics[h].start_ts \in HourlyRecomputed
                    /\ ShortTermIn(DB, statistics[h].metadata_id, statistics[h].start_ts) # {})
                   => IsRollupOf(statistics[h],
                                 ShortTermIn(DB, statistics[h].metadata_id,
                                             statistics[h].start_ts))

\* C39 witness: a later step of a cascade failed after an earlier step had recomputed
\* a short-term bucket to new values, and no bucket row has changed
C39_Witness ==
    /\ Called("update_record", "state")
    /\ CascadeRaised
    /\ Len(last.calls) >= 2
    /\ last.calls[1].kind = "short_term"
    /\ \E d \in FullCascades, r \in DOMAIN before.statistics_short_term :
          /\ before.statistics_short_term[r].start_ts = last.calls[1].start_ts
          /\ d.statistics_short_term[r] # before.statistics_short_term[r]
    /\ statistics_short_term = before.statistics_short_term
    /\ statistics = before.statistics

-----------------------------------------------------------------------------
(* C40: what a call on a state record leaves alone, specification Spec *)

\* the last call was one of the three handlers of state records
SampleMutated == last.kind = "state" /\ last.op \in {"create_record", "update_record", "delete_record"}

\* the entity the last call worked on
MutatedEntity ==
    IF last.op = "create_record" THEN {last.args.entity_id}
    ELSE IF last.id \in DOMAIN before.states THEN EntityOfState(before, last.id) ELSE {}

\* the updated_at values of the record of the last call, before and after it
MutatedTimestamps ==
    (IF last.id \in DOMAIN before.states THEN {before.states[last.id].last_updated_ts} ELSE {})
    \cup (IF last.id \in DOMAIN states THEN {states[last.id].last_updated_ts} ELSE {})

Affected5Min == {P5(t) : t \in MutatedTimestamps}
AffectedHours == {PH(t) : t \in MutatedTimestamps}

\* row r of a table is there after the call as it was before
Untouched(old, new, r) == r \in DOMAIN new /\ new[r] = old[r]

\* C40: a create, edit or delete of a state record leaves unchanged every state record,
\* 5-minute row and hourly row of another entity, and every 5-minute and hourly row of
\* its own entity whose start is not the 5-minute start or the hour of the
\* record's updated_at before or after the call.
C40_SampleMutationFrame ==
    SampleMutated =>
        /\ \A i \in DOMAIN before.states :
              (i # last.id /\ EntityOfState(before, i) \cap MutatedEntity = {})
              => Untouched(before.states, states, i)
        /\ \A r \in DOMAIN before.statistics_short_term :
              (\/ EntityOfStatistic(before, before.statistics_short_term[r].metadata_id)
                      \cap MutatedEntity = {}
               \/ before.statistics_short_term[r].start_ts \notin Affected5Min)
              => Untouched(before.statistics_short_term, statistics_short_term, r)
        /\ \A h \in DOMAIN before.statistics :
              (\/ EntityOfStatistic(before, before.statistics[h].metadata_id)
                      \cap MutatedEntity = {}
               \/ before.statistics[h].start_ts \notin AffectedHours)
              => Untouched(before.statistics, statistics, h)

\* the same for the edits alone
C40_EditFrame == Called("update_record", "state") => C40_SampleMutationFrame

-----------------------------------------------------------------------------
(* C34: two concurrent edits in one 5-minute period, specification SpecEditRace *)

\* the 5-minute rows of the period and entity of the record of caller p
BucketsOf(p) ==
    {r \in DOMAIN statistics_short_term :
        /\ EntityOfStatistic(DB, statistics_short_term[r].metadata_id)
               = EntityOfState(DB, sessions[p].state_id)
        /\ statistics_short_term[r].start_ts = P5(states[sessions[p].state_id].last_updated_ts)}

\* C34: once both update_record calls on two records of one 5-minute period have
\* returned, the mean, min and max of the period's row are those of the numeric states
\* now stored in the period, whatever the order of the steps of the two calls.
C34_ConcurrentEditsConsistent ==
    AllDone =>
        \A p \in Callers : \A r \in BucketsOf(p) :
            NumericSamplesIn(DB, statistics_short_term[r].metadata_id,
                             statistics_short_term[r].start_ts) # {}
            => IsAggregateOf(DB, statistics_short_term[r],
                             NumericSamplesIn(DB, statistics_short_term[r].metadata_id,
                                              statistics_short_term[r].start_ts))

====
